---------------------------- MODULE Spec2Model ----------------------------
(***************************************************************************)
(* Design-pattern demos of zu-ze/design-patterns-go-lang as state machines. *)
(*                                                                         *)
(*   SpecFly     flyweight: TreeTypeFactory/Forest, StyleFactory/TextEditor,*)
(*               SpriteFactory/ParticleSystem (sequential, as in main)      *)
(*   SpecRace    flyweight: GetTreeType executed statement by statement by  *)
(*               two goroutines sharing one factory                         *)
(*   SpecAdapter adapter: MediaAdapter / AdvancedMediaPlayer                *)
(*   SpecDB      proxy: DatabaseProxy over RealDatabase                     *)
(*   SpecOnce    singleton: GetDatabaseInstance under sync.Once             *)
(*   SpecProto   prototype: Resume / Report clones and field mutations      *)
(*   SpecBank    proxy: BankAccountProxy over RealBankAccount               *)
(*   SpecLb      proxy: LoadBalancerProxy over three RealServers            *)
(*   SpecYt      proxy: CachedYouTubeProxy over YouTubeDownloader           *)
(*   SpecImg     proxy: ImageProxy over RealImage                           *)
(*   SpecDs      decorator: encryption / compression over FileDataSource    *)
(*   SpecBr      bridge: Remote / AdvancedRemote driving the TV             *)
(*   SpecEd      flyweight: the text editor document built by main          *)
(*   SpecConn    singleton: Database.Connect / Logger.Log counters called    *)
(*               from two goroutines, load and store as separate steps      *)
(*   SpecComp    composite: Directory / File sizes, Manager salaries         *)
(*   SpecBld     builder: ComputerBuilder and the Director's recipes         *)
(*                                                                         *)
(* Go strings are TLA+ strings where only concatenation and equality are   *)
(* used, and sequences of one-character strings where the code slices or   *)
(* iterates them.  A pointer is the index of the object in the heap of its *)
(* type; 0 is nil.                                                         *)
(***************************************************************************)
EXTENDS Integers, Sequences, FiniteSets, TLC

VARIABLES
    \* flyweight (src/unnamed/part_006:353-750)
    treeTypes,      \* TreeTypeFactory.treeTypes : key -> *TreeType
    treeHeap,       \* the TreeType objects allocated by NewTreeType
    trees,          \* Forest.trees : sequence of Tree{x, y, treeType}
    styles,         \* StyleFactory.styles : key -> *CharacterStyle
    styleHeap,      \* the CharacterStyle objects allocated
    characters,     \* TextEditor.characters : sequence of Character
    sprites,        \* SpriteFactory.sprites : key -> *ParticleSprite
    spriteHeap,     \* the ParticleSprite objects allocated
    particles,      \* ParticleSystem.particles : sequence of Particle
    lookups,        \* number of factory lookups performed so far
    lastLookup,     \* the most recent factory lookup and what it returned
    handles,        \* every (attributes, reference) a lookup has returned
    flyOut,         \* value returned by the last Draw/Render/stats call
    \* two goroutines inside GetTreeType (src/unnamed/part_006:390-401)
    gpc,            \* the statement each goroutine is at
    gattrs,         \* its arguments (name, color, texture)
    gkey,           \* its local variable key
    gtree,          \* its local variable treeType
    gmiss,          \* whether its map lookup found nothing
    gres,           \* what its last completed call returned
    gcalls,         \* number of calls it has completed
    fatal,          \* the runtime has aborted the process
    \* adapter (src/structural-patterns/facade/README.md:389-606)
    played,         \* calls made on AudioPlayer, VideoPlayer and VLCPlayer
    received,       \* requests announced by AdvancedMediaPlayer.Play
    playRet,        \* the last Play call and the error it returned
    plays,          \* number of Play calls made
    \* protection proxy (src/unnamed/part_002:722-777)
    dbRole,         \* DatabaseProxy.userRole ("" before NewDatabaseProxy)
    dbOpen,         \* a DatabaseProxy with its RealDatabase exists
    dbTrace,        \* RealDatabase.Query executions and logQuery entries
    dbRet,          \* the last Query call and what it returned
    dbQueries,      \* number of Query calls made
    dbPanicked,     \* a run-time panic has aborted the process
    \* singleton (src/unnamed/part_001:9-44, 127-142)
    databaseInstance, \* the package variable: a *Database, 0 while nil
    dbObjects,      \* the Database objects allocated
    onceDone,       \* once: the done flag
    onceM,          \* once: the goroutine holding the mutex, 0 when free
    initRuns,       \* number of times the function passed to once.Do ran
    mainRet,        \* what main's own GetDatabaseInstance calls returned
    spawned,        \* simulateConcurrentAccess has started its goroutines
    spc,            \* where each goroutine is inside GetDatabaseInstance
    sret,           \* what GetDatabaseInstance returned to each goroutine
    \* prototype (src/prototype/main.go:9-266)
    pDocs,          \* the Resume and Report objects allocated
    pAuthors,       \* the Author objects allocated
    pAddrs,         \* the Address objects allocated
    pArrs,          \* the backing arrays of the []string slices
    pMaps,          \* the map[string]interface{} objects allocated
    pCloneOf,       \* for each document, the document it was cloned from (0: none)
    pRegistry,      \* DocumentRegistry.documents : name -> Document
    pLast,          \* the last operation performed and its result
    pClones,        \* number of Clone calls made
    pMutations,     \* number of field mutations made
    pRegisters,     \* number of Register calls made
    \* smart proxy (src/unnamed/part_002:823-896)
    bkPin,          \* BankAccountProxy.pin
    bkBalance,      \* RealBankAccount.balance, in whole dollars
    attemptCount,   \* BankAccountProxy.attemptCount
    locked,         \* BankAccountProxy.locked
    bkLast,         \* the last call on the proxy: method, arguments and result
    bkStreak,       \* history: wrong PINs entered in a row since creation or the last successful authentication
    bkCalls,        \* number of calls made on the proxy
    \* remote proxy (src/unnamed/part_002:898-939)
    currentIndex,   \* LoadBalancerProxy.currentIndex
    lbServed,       \* history: the RealServer.Request calls made, in order (server, url)
    lbRet,          \* what the last LoadBalancerProxy.Request returned
    \* caching proxy (src/unnamed/part_002:779-817)
    ytCache,        \* CachedYouTubeProxy.cache
    ytDownloads,    \* history: the video IDs YouTubeDownloader.Download was called with
    ytLog,          \* history: the CachedYouTubeProxy.Download calls made (videoID, data returned)
    \* virtual proxy (src/unnamed/part_002:680-716)
    imgProxies,     \* the ImageProxy objects created (filename, realImage pointer)
    imgReal,        \* the RealImage objects allocated
    imgLoads,       \* history: the RealImage.loadFromDisk calls made (proxy that caused it, filename)
    imgShown,       \* history: per proxy, the number of Display calls made and the file last displayed
    \* decorator, data sources (src/unnamed/part_006:96-189)
    dsStack,        \* the decorators wrapped around the file source, outermost first
    fileData,       \* FileDataSource.data, as a sequence of characters
    dsTrace,        \* the steps of the last WriteData / ReadData call, in execution order
    dsLast,         \* the last call made through the outermost data source and its result
    dsWritten,      \* history: the last WriteData argument and the stack it went through
    \* bridge, remote and TV (src/unnamed/part_005:16-198)
    tvEnabled,      \* TV.enabled
    tvVolume,       \* TV.volume
    tvChannel,      \* TV.channel
    brScript,       \* history: how many steps of the demo the calls made on the TV have followed so far (-1: they left the demo)
    brOps,          \* number of remote calls made
    \* flyweight, text editor demo (src/unnamed/part_006:709-726)
    edPc,           \* the number of AddText calls of main made so far
    \* singleton counters (src/unnamed/part_001:15-56)
    connections,    \* Database.connections of the shared instance
    logCount,       \* Logger.logCount of the shared instance
    wpc,            \* per goroutine: "idle", or the statement of Connect / Log it is at
    wreg,           \* per goroutine: the counter value it has read
    connectDone,    \* history: number of Connect calls completed
    logDone,        \* history: number of Log calls completed
    wStarted,       \* number of calls started
    \* composite (src/unnamed/part_002:8-192)
    fsChildren,     \* Directory.children of every directory: sequence of component pointers
    subordinates,   \* Manager.subordinates of every manager: sequence of employee pointers
    compOut,        \* the last GetSize / GetSalary call and its result
    compOps,        \* number of Add / Remove calls made
    \* builder (src/builder/main.go:8-166)
    bComputers,     \* the Computer objects allocated
    bBuilders,      \* the ComputerBuilder objects allocated: ComputerBuilder.computer of each
    bReturned,      \* history: the Computers handed out by Build and the Director (pointer, value when returned, recipe)
    bCalls          \* number of calls made on builders and the director

flyVars == <<treeTypes, treeHeap, trees, styles, styleHeap, characters,
             sprites, spriteHeap, particles, lookups, lastLookup, handles,
             flyOut>>

raceVars == <<gpc, gattrs, gkey, gtree, gmiss, gres, gcalls, fatal>>

adapterVars == <<played, received, playRet, plays>>

dbVars == <<dbRole, dbOpen, dbTrace, dbRet, dbQueries, dbPanicked>>

onceVars == <<databaseInstance, dbObjects, onceDone, onceM, initRuns,
              mainRet, spawned, spc, sret>>

protoVars == <<pDocs, pAuthors, pAddrs, pArrs, pMaps, pCloneOf, pRegistry,
               pLast, pClones, pMutations, pRegisters>>

bankVars == <<bkPin, bkBalance, attemptCount, locked, bkLast, bkStreak,
              bkCalls>>

lbVars == <<currentIndex, lbServed, lbRet>>

ytVars == <<ytCache, ytDownloads, ytLog>>

imgVars == <<imgProxies, imgReal, imgLoads, imgShown>>

dsVars == <<dsStack, fileData, dsTrace, dsLast, dsWritten>>

brVars == <<tvEnabled, tvVolume, tvChannel, brScript, brOps>>

edVars == <<edPc>>

connVars == <<connections, logCount, wpc, wreg, connectDone, logDone,
              wStarted>>

compVars == <<fsChildren, subordinates, compOut, compOps>>

bldVars == <<bComputers, bBuilders, bReturned, bCalls>>

vars == <<flyVars, raceVars, adapterVars, dbVars, onceVars, protoVars,
          bankVars, lbVars, ytVars, imgVars, dsVars, brVars, edVars,
          connVars, compVars, bldVars>>

\* the state each group of operations leaves alone
flyRest == <<raceVars, adapterVars, dbVars, onceVars, protoVars, bankVars,
             lbVars, ytVars, imgVars, dsVars, brVars, edVars, connVars,
             compVars, bldVars>>
raceRest == <<trees, styles, styleHeap, characters, sprites, spriteHeap,
              particles, lookups, lastLookup, handles, flyOut, adapterVars,
              dbVars, onceVars, protoVars, bankVars, lbVars, ytVars, imgVars,
              dsVars, brVars, edVars, connVars, compVars, bldVars>>
adapterRest == <<flyVars, raceVars, dbVars, onceVars, protoVars, bankVars,
                 lbVars, ytVars, imgVars, dsVars, brVars, edVars, connVars,
                 compVars, bldVars>>
dbRest == <<flyVars, raceVars, adapterVars, onceVars, protoVars, bankVars,
            lbVars, ytVars, imgVars, dsVars, brVars, edVars, connVars,
            compVars, bldVars>>
onceRest == <<flyVars, raceVars, adapterVars, dbVars, protoVars, bankVars,
              lbVars, ytVars, imgVars, dsVars, brVars, edVars, connVars,
              compVars, bldVars>>
protoRest == <<flyVars, raceVars, adapterVars, dbVars, onceVars, bankVars,
               lbVars, ytVars, imgVars, dsVars, brVars, edVars, connVars,
               compVars, bldVars>>
bankRest == <<flyVars, raceVars, adapterVars, dbVars, onceVars, protoVars,
              lbVars, ytVars, imgVars, dsVars, brVars, edVars, connVars,
              compVars, bldVars>>
lbRest == <<flyVars, raceVars, adapterVars, dbVars, onceVars, protoVars,
            bankVars, ytVars, imgVars, dsVars, brVars, edVars, connVars,
            compVars, bldVars>>
ytRest == <<flyVars, raceVars, adapterVars, dbVars, onceVars, protoVars,
            bankVars, lbVars, imgVars, dsVars, brVars, edVars, connVars,
            compVars, bldVars>>
imgRest == <<flyVars, raceVars, adapterVars, dbVars, onceVars, protoVars,
             bankVars, lbVars, ytVars, dsVars, brVars, edVars, connVars,
             compVars, bldVars>>
dsRest == <<flyVars, raceVars, adapterVars, dbVars, onceVars, protoVars,
            bankVars, lbVars, ytVars, imgVars, brVars, edVars, connVars,
            compVars, bldVars>>
brRest == <<flyVars, raceVars, adapterVars, dbVars, onceVars, protoVars,
            bankVars, lbVars, ytVars, imgVars, dsVars, edVars, connVars,
            compVars, bldVars>>
edRest == <<treeTypes, treeHeap, trees, sprites, spriteHeap, particles,
            lookups, lastLookup, handles, flyOut, raceVars, adapterVars,
            dbVars, onceVars, protoVars, bankVars, lbVars, ytVars, imgVars,
            dsVars, brVars, connVars, compVars, bldVars>>
connRest == <<flyVars, raceVars, adapterVars, dbVars, onceVars, protoVars,
              bankVars, lbVars, ytVars, imgVars, dsVars, brVars, edVars,
              compVars, bldVars>>
compRest == <<flyVars, raceVars, adapterVars, dbVars, onceVars, protoVars,
              bankVars, lbVars, ytVars, imgVars, dsVars, brVars, edVars,
              connVars, bldVars>>
bldRest == <<flyVars, raceVars, adapterVars, dbVars, onceVars, protoVars,
             bankVars, lbVars, ytVars, imgVars, dsVars, brVars, edVars,
             connVars, compVars>>

-----------------------------------------------------------------------------
(* Bounds *)

MaxLookups == 3
MaxRaceCalls == 2
MaxPlays == 2
MaxQueries == 3
MaxClones == 1
MaxMutations == 1
MaxRegisters == 2
MaxBankCalls == 5
MaxRequests == 6
MaxDownloads == 6
MaxProxies == 3
MaxDisplays == 2
MaxLayers == 2
MaxRemoteOps == 6
MaxCounterCalls == 4
MaxTreeOps == 4
MaxBuilders == 2
MaxBuilderCalls == 3

-----------------------------------------------------------------------------
(* Go maps and formatting helpers *)

\* m[key] = value on a Go map
MapPut(m, key, value) ==
    [k \in DOMAIN m \cup {key} |-> IF k = key THEN value ELSE m[k]]

\* the empty map returned by make(map[string]*T)
EmptyMap == [k \in {} |-> 0]

\* one decimal digit, as fmt's %d prints it
Digit(d) ==
    CASE d = 0 -> "0" [] d = 1 -> "1" [] d = 2 -> "2" [] d = 3 -> "3"
      [] d = 4 -> "4" [] d = 5 -> "5" [] d = 6 -> "6" [] d = 7 -> "7"
      [] d = 8 -> "8" [] d = 9 -> "9"

RECURSIVE Itoa(_)
\* fmt's %d verb
Itoa(n) ==
    IF n < 0 THEN "-" \o Itoa(-n)
    ELSE IF n < 10 THEN Digit(n)
    ELSE Itoa(n \div 10) \o Digit(n % 10)

\* fmt's %t verb
Btoa(b) == IF b THEN "true" ELSE "false"

-----------------------------------------------------------------------------
(* Flyweight: inputs *)

Positions == { <<10, 20>>, <<30, 40>> }

TreeAttrs ==
    { <<"Oak", "Green", "Rough">>,
      <<"Pine", "Dark Green", "Smooth">>,
      <<"Red-Oak", "Green", "Rough">>,
      <<"Red", "Oak-Green", "Rough">> }

StyleAttrs ==
    { <<"Arial", 12, "Black", TRUE, FALSE>>,
      <<"Arial-12", 24, "Blue", FALSE, FALSE>>,
      <<"Arial", 12, "24-Blue", FALSE, FALSE>> }

Texts == { <<"H", "i">> }

SpriteAttrs ==
    { <<"smoke", "gray">>,
      <<"spark-hot", "red">>,
      <<"spark", "hot-red">> }

SpriteSizes == { <<32, 32>> }

ParticleStates == { <<10, 20, 5>> }

-----------------------------------------------------------------------------
(* Flyweight: TreeTypeFactory and Forest *)

NewTreeType(name, color, texture) ==
    [name |-> name, color |-> color, texture |-> texture]

\* TreeKey joining with a separator no attribute contains
TreeKeyBar(name, color, texture) == name \o "|" \o color \o "|" \o texture

TreeKey(name, color, texture) == name \o "-" \o color \o "-" \o texture

\* GetTreeType without the lookup: every call constructs and stores anew
GetTreeTypeNoCheck(tt, heap, name, color, texture) ==
    LET key == TreeKey(name, color, texture)
        treeType == Len(heap) + 1 IN
    [map    |-> MapPut(tt, key, treeType),
     heap   |-> Append(heap, NewTreeType(name, color, texture)),
     result |-> treeType, key |-> key, hit |-> key \in DOMAIN tt]

\* GetTreeType keyed by the texture alone
GetTreeTypeByTexture(tt, heap, name, color, texture) ==
    LET key == texture IN
    IF key \in DOMAIN tt
    THEN [map |-> tt, heap |-> heap, result |-> tt[key], key |-> key,
          hit |-> TRUE]
    ELSE LET treeType == Len(heap) + 1 IN
         [map    |-> MapPut(tt, key, treeType),
          heap   |-> Append(heap, NewTreeType(name, color, texture)),
          result |-> treeType, key |-> key, hit |-> FALSE]

\* GetTreeType on a factory whose map is tt, with heap the TreeType objects
\* allocated so far: the map and heap afterwards, and the reference returned.
GetTreeType(tt, heap, name, color, texture) ==
    LET key == TreeKey(name, color, texture) IN
    IF key \in DOMAIN tt
    THEN [map |-> tt, heap |-> heap, result |-> tt[key], key |-> key,
          hit |-> TRUE]
    ELSE LET treeType == Len(heap) + 1 IN
         [map    |-> MapPut(tt, key, treeType),
          heap   |-> Append(heap, NewTreeType(name, color, texture)),
          result |-> treeType, key |-> key, hit |-> FALSE]

GetTotalTypes == Cardinality(DOMAIN treeTypes)

NewTree(x, y, treeType) == [x |-> x, y |-> y, treeType |-> treeType]

\* what TreeType.Draw prints for one tree
TreeTypeDraw(t, x, y) ==
    [name |-> t.name, x |-> x, y |-> y, color |-> t.color,
     texture |-> t.texture]

TreeDraw(tree) == TreeTypeDraw(treeHeap[tree.treeType], tree.x, tree.y)

\* a float64 quotient num/den, kept exact; den = 0 is Go's NaN or Inf
Ratio(num, den) == [num |-> num, den |-> den]

-----------------------------------------------------------------------------
(* Flyweight: StyleFactory and TextEditor *)

NewCharacterStyle(font, size, color, bold, italic) ==
    [font |-> font, size |-> size, color |-> color, bold |-> bold,
     italic |-> italic]

StyleKey(font, size, color, bold, italic) ==
    font \o "-" \o Itoa(size) \o "-" \o color \o "-" \o Btoa(bold)
         \o "-" \o Btoa(italic)

\* GetStyle replacing the cached style by a new object on a hit
GetStyleRefresh(st, heap, font, size, color, bold, italic) ==
    LET key == StyleKey(font, size, color, bold, italic)
        style == Len(heap) + 1 IN
    IF key \in DOMAIN st
    THEN [map    |-> MapPut(st, key, style),
          heap   |-> Append(heap,
                        NewCharacterStyle(font, size, color, bold, italic)),
          result |-> style, key |-> key, hit |-> TRUE]
    ELSE [map    |-> MapPut(st, key, style),
          heap   |-> Append(heap,
                        NewCharacterStyle(font, size, color, bold, italic)),
          result |-> style, key |-> key, hit |-> FALSE]

GetStyle(st, heap, font, size, color, bold, italic) ==
    LET key == StyleKey(font, size, color, bold, italic) IN
    IF key \in DOMAIN st
    THEN [map |-> st, heap |-> heap, result |-> st[key], key |-> key,
          hit |-> TRUE]
    ELSE LET style == Len(heap) + 1 IN
         [map    |-> MapPut(st, key, style),
          heap   |-> Append(heap,
                        NewCharacterStyle(font, size, color, bold, italic)),
          result |-> style, key |-> key, hit |-> FALSE]

GetTotalStyles == Cardinality(DOMAIN styles)

\* the characters AddText appends for text, all carrying the one style
StyledChars(text, style) ==
    [i \in 1..Len(text) |-> [char |-> text[i], style |-> style]]

\* printStyledText: one output line
StyledLine(text, style) ==
    [font |-> styleHeap[style].font, size |-> styleHeap[style].size,
     color |-> styleHeap[style].color, bold |-> styleHeap[style].bold,
     italic |-> styleHeap[style].italic, text |-> text]

RECURSIVE RenderFrom(_, _, _, _)
\* the loop of Render from character i on, with the current style and buffer
RenderFrom(i, currentStyle, buffer, out) ==
    IF i > Len(characters)
    THEN IF Len(buffer) > 0
         THEN Append(out, StyledLine(buffer, currentStyle))
         ELSE out
    ELSE LET char == characters[i] IN
         IF currentStyle # char.style
         THEN RenderFrom(i + 1, char.style, <<char.char>>,
                         IF Len(buffer) > 0
                         THEN Append(out, StyledLine(buffer, currentStyle))
                         ELSE out)
         ELSE RenderFrom(i + 1, currentStyle, Append(buffer, char.char), out)

-----------------------------------------------------------------------------
(* Flyweight: SpriteFactory and ParticleSystem *)

NewParticleSprite(name, color, width, height) ==
    [name |-> name, color |-> color, width |-> width, height |-> height]

SpriteKey(name, color, width, height) ==
    name \o "-" \o color \o "-" \o Itoa(width) \o "-" \o Itoa(height)

\* GetSprite keeping only the newest sprite in the map
GetSpriteEvicting(sp, heap, name, color, width, height) ==
    LET key == SpriteKey(name, color, width, height) IN
    IF key \in DOMAIN sp
    THEN [map |-> sp, heap |-> heap, result |-> sp[key], key |-> key,
          hit |-> TRUE]
    ELSE LET sprite == Len(heap) + 1 IN
         [map    |-> MapPut(EmptyMap, key, sprite),
          heap   |-> Append(heap,
                        NewParticleSprite(name, color, width, height)),
          result |-> sprite, key |-> key, hit |-> FALSE]

GetSprite(sp, heap, name, color, width, height) ==
    LET key == SpriteKey(name, color, width, height) IN
    IF key \in DOMAIN sp
    THEN [map |-> sp, heap |-> heap, result |-> sp[key], key |-> key,
          hit |-> TRUE]
    ELSE LET sprite == Len(heap) + 1 IN
         [map    |-> MapPut(sp, key, sprite),
          heap   |-> Append(heap,
                        NewParticleSprite(name, color, width, height)),
          result |-> sprite, key |-> key, hit |-> FALSE]

GetTotalSprites == Cardinality(DOMAIN sprites)

-----------------------------------------------------------------------------
(* Flyweight: state after NewForest, NewTextEditor, NewParticleSystem *)

NoLookup == [factory |-> "none"]

InitFly ==
    /\ treeTypes = EmptyMap /\ treeHeap = <<>> /\ trees = <<>>
    /\ styles = EmptyMap /\ styleHeap = <<>> /\ characters = <<>>
    /\ sprites = EmptyMap /\ spriteHeap = <<>> /\ particles = <<>>
    /\ lookups = 0
    /\ lastLookup = NoLookup
    /\ handles = {}
    /\ flyOut = [op |-> "none"]

\* the record of one lookup: what was asked, and what came back
Lookup(factory, attrs, r) ==
    [factory |-> factory, attrs |-> attrs, key |-> r.key,
     result |-> r.result, hit |-> r.hit]

\* a reference handed out: via names the caller ("entry" when the lookup was
\* made to create a context entry, "direct" for a call on the factory)
Handle(factory, via, attrs, r) ==
    [factory |-> factory, via |-> via, attrs |-> attrs, ref |-> r.result]

Record(factory, via, attrs, r) ==
    /\ lookups' = lookups + 1
    /\ lastLookup' = Lookup(factory, attrs, r)
    /\ handles' = handles \cup {Handle(factory, via, attrs, r)}

treeVars == <<treeTypes, treeHeap, trees>>
styleVars == <<styles, styleHeap, characters>>
spriteVars == <<sprites, spriteHeap, particles>>
lookupVars == <<lookups, lastLookup, handles>>

\* a client calls factory.GetTreeType directly (TestTreeTypeSharing)
CallGetTreeType ==
    /\ lookups < MaxLookups
    /\ \E a \in TreeAttrs :
        LET r == GetTreeType(treeTypes, treeHeap, a[1], a[2], a[3]) IN
        /\ treeTypes' = r.map
        /\ treeHeap' = r.heap
        /\ Record("tree", "direct", a, r)
        /\ flyOut' = [op |-> "GetTreeType", ref |-> r.result]
    /\ UNCHANGED <<trees, styleVars, spriteVars, flyRest>>

PlantTree ==
    /\ lookups < MaxLookups
    /\ \E p \in Positions, a \in TreeAttrs :
        LET r == GetTreeType(treeTypes, treeHeap, a[1], a[2], a[3]) IN
        /\ treeTypes' = r.map
        /\ treeHeap' = r.heap
        /\ trees' = Append(trees, NewTree(p[1], p[2], r.result))
        /\ Record("tree", "entry", a, r)
    /\ flyOut' = [op |-> "none"]
    /\ UNCHANGED <<styleVars, spriteVars, flyRest>>

ForestDraw ==
    /\ flyOut' = [op |-> "Draw",
                  lines |-> [i \in 1..Len(trees) |-> TreeDraw(trees[i])]]
    /\ UNCHANGED <<treeVars, styleVars, spriteVars, lookupVars, flyRest>>

GetMemoryUsage ==
    /\ LET treeCount == Len(trees)
           typeCount == GetTotalTypes
           withoutFlyweight == treeCount * 100
           withFlyweight == (treeCount * 16) + (typeCount * 100)
           saved == withoutFlyweight - withFlyweight
       IN flyOut' = [op |-> "GetMemoryUsage", trees |-> treeCount,
                     types |-> typeCount, without |-> withoutFlyweight,
                     with |-> withFlyweight, saved |-> saved,
                     reduction |-> Ratio(saved * 100, withoutFlyweight)]
    /\ UNCHANGED <<treeVars, styleVars, spriteVars, lookupVars, flyRest>>

AddText ==
    /\ lookups < MaxLookups
    /\ \E text \in Texts, a \in StyleAttrs :
        LET r == GetStyle(styles, styleHeap, a[1], a[2], a[3], a[4], a[5]) IN
        /\ styles' = r.map
        /\ styleHeap' = r.heap
        /\ characters' = characters \o StyledChars(text, r.result)
        /\ Record("style", "entry", a, r)
    /\ flyOut' = [op |-> "none"]
    /\ UNCHANGED <<treeVars, spriteVars, flyRest>>

Render ==
    /\ flyOut' = [op |-> "Render", lines |-> RenderFrom(1, 0, <<>>, <<>>)]
    /\ UNCHANGED <<treeVars, styleVars, spriteVars, lookupVars, flyRest>>

EditorGetStats ==
    /\ LET charCount == Len(characters)
           styleCount == GetTotalStyles
           withoutFlyweight == charCount * 50
           withFlyweight == (charCount * 10) + (styleCount * 40)
           saved == withoutFlyweight - withFlyweight
       IN flyOut' = [op |-> "EditorGetStats", characters |-> charCount,
                     styles |-> styleCount, without |-> withoutFlyweight,
                     with |-> withFlyweight, saved |-> saved,
                     reduction |-> Ratio(saved * 100, withoutFlyweight)]
    /\ UNCHANGED <<treeVars, styleVars, spriteVars, lookupVars, flyRest>>

\* a client calls spriteFactory.GetSprite directly, with any sprite size
CallGetSprite ==
    /\ lookups < MaxLookups
    /\ \E a \in SpriteAttrs, s \in SpriteSizes :
        LET r == GetSprite(sprites, spriteHeap, a[1], a[2], s[1], s[2]) IN
        /\ sprites' = r.map
        /\ spriteHeap' = r.heap
        /\ Record("sprite", "direct", <<a[1], a[2], s[1], s[2]>>, r)
        /\ flyOut' = [op |-> "GetSprite", ref |-> r.result]
    /\ UNCHANGED <<particles, treeVars, styleVars, flyRest>>

AddParticle ==
    /\ lookups < MaxLookups
    /\ \E p \in ParticleStates, a \in SpriteAttrs :
        LET r == GetSprite(sprites, spriteHeap, a[1], a[2], 16, 16) IN
        /\ sprites' = r.map
        /\ spriteHeap' = r.heap
        /\ particles' = Append(particles,
                           [x |-> p[1], y |-> p[2], velocity |-> p[3],
                            sprite |-> r.result])
        /\ Record("sprite", "entry", <<a[1], a[2], 16, 16>>, r)
    /\ flyOut' = [op |-> "none"]
    /\ UNCHANGED <<treeVars, styleVars, flyRest>>

ParticleGetStats ==
    /\ LET particleCount == Len(particles)
           spriteCount == GetTotalSprites
       IN flyOut' = [op |-> "ParticleGetStats", particles |-> particleCount,
                     sprites |-> spriteCount,
                     reuse |-> Ratio(particleCount, spriteCount)]
    /\ UNCHANGED <<treeVars, styleVars, spriteVars, lookupVars, flyRest>>

NextFly ==
    \/ CallGetTreeType
    \/ PlantTree
    \/ ForestDraw
    \/ GetMemoryUsage
    \/ AddText
    \/ Render
    \/ EditorGetStats
    \/ CallGetSprite
    \/ AddParticle
    \/ ParticleGetStats

TypeOKFly ==
    /\ \A k \in DOMAIN treeTypes : treeTypes[k] \in 1..Len(treeHeap)
    /\ \A i \in 1..Len(trees) : trees[i].treeType \in 1..Len(treeHeap)
    /\ \A k \in DOMAIN styles : styles[k] \in 1..Len(styleHeap)
    /\ \A k \in DOMAIN sprites : sprites[k] \in 1..Len(spriteHeap)
    /\ lookups \in 0..MaxLookups

-----------------------------------------------------------------------------
(* Flyweight: what the claims speak about *)

\* the cache key the factory computes for a set of attributes
KeyOf(factory, a) ==
    CASE factory = "tree" -> TreeKey(a[1], a[2], a[3])
      [] factory = "style" -> StyleKey(a[1], a[2], a[3], a[4], a[5])
      [] factory = "sprite" -> SpriteKey(a[1], a[2], a[3], a[4])

\* the map, the heap and the distinct-entry count of a factory
CacheOf(factory) ==
    CASE factory = "tree" -> treeTypes
      [] factory = "style" -> styles
      [] factory = "sprite" -> sprites

HeapOf(factory) ==
    CASE factory = "tree" -> treeHeap
      [] factory = "style" -> styleHeap
      [] factory = "sprite" -> spriteHeap

TotalOf(factory) ==
    CASE factory = "tree" -> GetTotalTypes
      [] factory = "style" -> GetTotalStyles
      [] factory = "sprite" -> GetTotalSprites

\* the attributes stored in a descriptor object
AttrsOfObject(factory, o) ==
    CASE factory = "tree" -> <<o.name, o.color, o.texture>>
      [] factory = "style" -> <<o.font, o.size, o.color, o.bold, o.italic>>
      [] factory = "sprite" -> <<o.name, o.color, o.width, o.height>>

Factories == {"tree", "style", "sprite"}

\* C1: lookups with equal keys return the identical descriptor, and no two
\* descriptor objects for one key ever coexist (all three factories).
C1_SameKeySameInstance ==
    /\ \A h1, h2 \in handles :
          (h1.factory = h2.factory
             /\ KeyOf(h1.factory, h1.attrs) = KeyOf(h2.factory, h2.attrs))
          => h1.ref = h2.ref
    /\ \A f \in Factories : \A p, q \in 1..Len(HeapOf(f)) :
          KeyOf(f, AttrsOfObject(f, HeapOf(f)[p]))
             = KeyOf(f, AttrsOfObject(f, HeapOf(f)[q]))
          => p = q

\* C1 witness: a tree type is asked for again after another one was created
\* in between, and the same reference comes back.
C1_Witness ==
    /\ lastLookup.factory = "tree" /\ lastLookup.hit
    /\ lastLookup.result = 1
    /\ Len(treeHeap) >= 2
    /\ lookups >= 3

\* C2: attribute sets with different keys get distinct descriptors, and a
\* lookup of a key not yet cached raises the distinct-entry count by one.
C2_DistinctKeysDistinctInstances ==
    /\ [](\A h1, h2 \in handles :
            (h1.factory = h2.factory
               /\ KeyOf(h1.factory, h1.attrs) # KeyOf(h2.factory, h2.attrs))
            => h1.ref # h2.ref)
    /\ [][\A f \in Factories :
            (lookups' = lookups + 1 /\ lastLookup'.factory = f
               /\ KeyOf(f, lastLookup'.attrs) \notin DOMAIN CacheOf(f))
            => TotalOf(f)' = TotalOf(f) + 1]_vars

\* C2 witness: two tree types with different keys have been handed out.
C2_Witness ==
    /\ GetTotalTypes = 2
    /\ \E h1, h2 \in handles :
          /\ h1.factory = "tree" /\ h2.factory = "tree"
          /\ h1.attrs = <<"Oak", "Green", "Rough">>
          /\ h2.attrs = <<"Pine", "Dark Green", "Smooth">>
          /\ h1.ref # h2.ref

\* the distinct attribute sets the context entries of a factory were made of
EntryAttrs(f) == { h.attrs : h \in { g \in handles : g.factory = f } }

\* C3: N context entries made of K distinct attribute sets leave exactly K
\* descriptors in the cache (when the factory is used for nothing else).
C3_KAttributeSetsKDescriptors ==
    \A f \in Factories :
        (\A h \in handles : h.factory = f => h.via = "entry")
        => /\ TotalOf(f) = Cardinality(EntryAttrs(f))
           /\ Len(HeapOf(f)) = Cardinality(EntryAttrs(f))

\* C4: a lookup whose key is cached creates nothing and changes neither the
\* mapping nor the distinct-entry count.
C4_HitIsPure ==
    [][\A f \in Factories :
         (lookups' = lookups + 1 /\ lastLookup'.factory = f
            /\ KeyOf(f, lastLookup'.attrs) \in DOMAIN CacheOf(f))
         => /\ CacheOf(f)' = CacheOf(f)
            /\ HeapOf(f)' = HeapOf(f)
            /\ TotalOf(f)' = TotalOf(f)
            /\ lastLookup'.result = CacheOf(f)[KeyOf(f, lastLookup'.attrs)]]_vars

\* C4 witness: a style lookup has hit the cache.
C4_Witness ==
    /\ lastLookup.factory = "style" /\ lastLookup.hit
    /\ GetTotalStyles >= 1 /\ lookups >= 2

\* C5: the cache only grows: every key stays, keeps its descriptor, and the
\* descriptor keeps its fields, whatever operation is performed.
C5_CacheIsAdditive ==
    [][\A f \in Factories : \A k \in DOMAIN CacheOf(f) :
         /\ k \in DOMAIN CacheOf(f)'
         /\ CacheOf(f)'[k] = CacheOf(f)[k]
         /\ CacheOf(f)[k] \in 1..Len(HeapOf(f)')
         /\ HeapOf(f)'[CacheOf(f)[k]] = HeapOf(f)[CacheOf(f)[k]]]_vars

\* C5 witness: a sprite cache holding two entries after a read-only call.
C5_Witness ==
    /\ GetTotalSprites >= 2
    /\ flyOut.op = "ParticleGetStats"
    /\ Len(particles) >= 1

CollidingTrees ==
    { <<"Red-Oak", "Green", "Rough">>, <<"Red", "Oak-Green", "Rough">> }

CollidingStyles ==
    { <<"Arial-12", 24, "Blue", FALSE, FALSE>>,
      <<"Arial", 12, "24-Blue", FALSE, FALSE>> }

\* C6: attribute sets that differ only in where the "-" falls share one key:
\* the later request gets the descriptor created for the earlier one.
C6_SeparatorCollision ==
    /\ [](\A h1, h2 \in handles :
            \/ (h1.factory = "tree" /\ h2.factory = "tree"
                  /\ h1.attrs \in CollidingTrees /\ h2.attrs \in CollidingTrees)
            \/ (h1.factory = "style" /\ h2.factory = "style"
                  /\ h1.attrs \in CollidingStyles
                  /\ h2.attrs \in CollidingStyles)
            => h1.ref = h2.ref)
    /\ [][\A h \in handles :
            (lookups' = lookups + 1
               /\ lastLookup'.factory = h.factory
               /\ \/ h.factory = "tree"
                     /\ {h.attrs, lastLookup'.attrs} = CollidingTrees
                  \/ h.factory = "style"
                     /\ {h.attrs, lastLookup'.attrs} = CollidingStyles)
            => /\ lastLookup'.hit
               /\ lastLookup'.result = h.ref
               /\ HeapOf(h.factory)' = HeapOf(h.factory)]_vars

\* C6 witness: ("Red", "Oak-Green") was served the "Red-Oak" descriptor.
C6_Witness ==
    /\ lastLookup.factory = "tree"
    /\ lastLookup.attrs = <<"Red", "Oak-Green", "Rough">>
    /\ treeHeap[lastLookup.result].name = "Red-Oak"

-----------------------------------------------------------------------------
(* Flyweight: GetTreeType statement by statement, called by two goroutines  *)
(* on one factory.  The map accesses of the two are not ordered by any     *)
(* synchronisation; where a write can overlap another access the Go        *)
(* runtime may abort ("concurrent map writes"), or the accesses take       *)
(* effect one after the other.                                             *)

Goroutines == {1, 2}

RaceAttrs ==
    { <<"Oak", "Green", "Rough">>, <<"Pine", "Dark Green", "Smooth">> }

NoResult == [key |-> "", ref |-> 0, miss |-> FALSE]

InitRace ==
    /\ gpc = [g \in Goroutines |-> "idle"]
    /\ gattrs = [g \in Goroutines |-> <<"", "", "">>]
    /\ gkey = [g \in Goroutines |-> ""]
    /\ gtree = [g \in Goroutines |-> 0]
    /\ gmiss = [g \in Goroutines |-> FALSE]
    /\ gres = [g \in Goroutines |-> NoResult]
    /\ gcalls = [g \in Goroutines |-> 0]
    /\ fatal = FALSE

\* line 391: entry, key := name + "-" + color + "-" + texture
RaceCall(g) ==
    /\ ~fatal /\ gpc[g] = "idle" /\ gcalls[g] < MaxRaceCalls
    /\ \E a \in RaceAttrs :
        /\ gattrs' = [gattrs EXCEPT ![g] = a]
        /\ gkey' = [gkey EXCEPT ![g] = TreeKey(a[1], a[2], a[3])]
    /\ gpc' = [gpc EXCEPT ![g] = "check"]
    /\ gtree' = [gtree EXCEPT ![g] = 0]
    /\ gmiss' = [gmiss EXCEPT ![g] = FALSE]
    /\ UNCHANGED <<treeTypes, treeHeap, gres, gcalls, fatal, raceRest>>

\* line 393: if treeType, exists := f.treeTypes[key]; exists
RaceCheck(g) ==
    /\ ~fatal /\ gpc[g] = "check"
    /\ IF gkey[g] \in DOMAIN treeTypes
       THEN /\ gtree' = [gtree EXCEPT ![g] = treeTypes[gkey[g]]]
            /\ gpc' = [gpc EXCEPT ![g] = "return"]
            /\ UNCHANGED gmiss
       ELSE /\ gmiss' = [gmiss EXCEPT ![g] = TRUE]
            /\ gpc' = [gpc EXCEPT ![g] = "create"]
            /\ UNCHANGED gtree
    /\ UNCHANGED <<treeTypes, treeHeap, gattrs, gkey, gres, gcalls, fatal,
                   raceRest>>

\* line 398: treeType := NewTreeType(name, color, texture)
RaceCreate(g) ==
    /\ ~fatal /\ gpc[g] = "create"
    /\ treeHeap' = Append(treeHeap,
                      NewTreeType(gattrs[g][1], gattrs[g][2], gattrs[g][3]))
    /\ gtree' = [gtree EXCEPT ![g] = Len(treeHeap) + 1]
    /\ gpc' = [gpc EXCEPT ![g] = "insert"]
    /\ UNCHANGED <<treeTypes, gattrs, gkey, gmiss, gres, gcalls, fatal,
                   raceRest>>

\* another goroutine is at a map access that this one's write can overlap
MapAccessRaces(g) ==
    \E h \in Goroutines \ {g} : gpc[h] \in {"check", "insert"}

\* line 399 with a second lookup before the store (the README's locked form)
RaceInsertDoubleChecked(g) ==
    /\ ~fatal /\ gpc[g] = "insert"
    /\ IF gkey[g] \in DOMAIN treeTypes
       THEN /\ gtree' = [gtree EXCEPT ![g] = treeTypes[gkey[g]]]
            /\ UNCHANGED <<treeTypes, fatal>>
       ELSE /\ treeTypes' = MapPut(treeTypes, gkey[g], gtree[g])
            /\ UNCHANGED <<gtree, fatal>>
    /\ gpc' = [gpc EXCEPT ![g] = "return"]
    /\ UNCHANGED <<treeHeap, gattrs, gkey, gmiss, gres, gcalls, raceRest>>

\* line 399: f.treeTypes[key] = treeType
RaceInsert(g) ==
    /\ ~fatal /\ gpc[g] = "insert"
    /\ \/ /\ treeTypes' = MapPut(treeTypes, gkey[g], gtree[g])
          /\ gpc' = [gpc EXCEPT ![g] = "return"]
          /\ UNCHANGED fatal
       \/ /\ MapAccessRaces(g)
          /\ fatal' = TRUE
          /\ UNCHANGED <<treeTypes, gpc>>
    /\ UNCHANGED <<treeHeap, gattrs, gkey, gtree, gmiss, gres, gcalls,
                   raceRest>>

\* lines 395 and 400: return treeType
RaceReturn(g) ==
    /\ ~fatal /\ gpc[g] = "return"
    /\ gres' = [gres EXCEPT ![g] = [key |-> gkey[g], ref |-> gtree[g],
                                    miss |-> gmiss[g]]]
    /\ gcalls' = [gcalls EXCEPT ![g] = gcalls[g] + 1]
    /\ gpc' = [gpc EXCEPT ![g] = "idle"]
    /\ UNCHANGED <<treeTypes, treeHeap, gattrs, gkey, gtree, gmiss, fatal,
                   raceRest>>

NextRace ==
    \/ \E g \in Goroutines : RaceCall(g)
    \/ \E g \in Goroutines : RaceCheck(g)
    \/ \E g \in Goroutines : RaceCreate(g)
    \/ \E g \in Goroutines : RaceInsert(g)
    \/ \E g \in Goroutines : RaceReturn(g)

\* C7: nothing serialises check-then-insert: when two callers both miss on
\* one key, each constructs its own descriptor, they return different
\* references, and two descriptors for that key coexist.
C7_ConcurrentFirstAccessDuplicates ==
    \A g, h \in Goroutines :
        (g # h /\ gres[g].miss /\ gres[h].miss /\ gres[g].key = gres[h].key)
        => /\ gres[g].ref # gres[h].ref
           /\ gres[g].ref \in 1..Len(treeHeap)
           /\ gres[h].ref \in 1..Len(treeHeap)
           /\ KeyOf("tree", AttrsOfObject("tree", treeHeap[gres[g].ref]))
                 = KeyOf("tree", AttrsOfObject("tree", treeHeap[gres[h].ref]))

\* C7 witness: both goroutines have returned from a first access to one key
\* holding different references, without the runtime aborting.
C7_Witness ==
    /\ ~fatal
    /\ gres[1].miss /\ gres[2].miss
    /\ gres[1].key = gres[2].key
    /\ gres[1].ref # gres[2].ref
    /\ gcalls[1] = 1 /\ gcalls[2] = 1

-----------------------------------------------------------------------------
(* Adapter: MediaAdapter and AdvancedMediaPlayer.  A media type is a        *)
(* sequence of characters, since Play lower-cases it.                       *)

UpperCase == <<"A", "B", "C", "D", "E", "F", "G", "H", "I", "J", "K", "L",
               "M", "N", "O", "P", "Q", "R", "S", "T", "U", "V", "W", "X",
               "Y", "Z">>

LowerCase == <<"a", "b", "c", "d", "e", "f", "g", "h", "i", "j", "k", "l",
               "m", "n", "o", "p", "q", "r", "s", "t", "u", "v", "w", "x",
               "y", "z">>

ToLowerChar(c) ==
    IF \E i \in 1..26 : UpperCase[i] = c
    THEN LowerCase[CHOOSE i \in 1..26 : UpperCase[i] = c]
    ELSE c

\* strings.ToLower
ToLower(str) == [i \in 1..Len(str) |-> ToLowerChar(str[i])]

MediaTypes ==
    { <<"m", "p", "3">>, <<"M", "P", "3">>, <<"w", "a", "v">>,
      <<"a", "u", "d", "i", "o">>, <<"m", "p", "4">>, <<"A", "v", "i">>,
      <<"v", "i", "d", "e", "o">>, <<"v", "l", "c">>, <<"M", "k", "v">>,
      <<"u", "n", "k", "n", "o", "w", "n">>, <<"m", "p">>, <<>> }

FileNames == { "song.mp3", "file.xyz" }

NoError == [kind |-> "nil"]

\* fmt.Errorf("unsupported media type: %s", mediaType)
UnsupportedError(mediaType) ==
    [kind |-> "unsupported media type", mediaType |-> mediaType]

\* MediaAdapter.Play comparing the media type as given, without lower-casing
MediaAdapterPlayCaseSensitive(mediaType, fileName) ==
    LET t == mediaType IN
    CASE t \in { <<"m", "p", "3">>, <<"w", "a", "v">>,
                 <<"a", "u", "d", "i", "o">> } ->
            [player |-> "AudioPlayer", err |-> NoError]
      [] t \in { <<"m", "p", "4">>, <<"a", "v", "i">>,
                 <<"v", "i", "d", "e", "o">> } ->
            [player |-> "VideoPlayer", err |-> NoError]
      [] t \in { <<"v", "l", "c">>, <<"m", "k", "v">> } ->
            [player |-> "VLCPlayer", err |-> NoError]
      [] OTHER ->
            [player |-> "none", err |-> UnsupportedError(mediaType)]

\* MediaAdapter.Play: the player the switch invokes, and the error returned
MediaAdapterPlay(mediaType, fileName) ==
    LET t == ToLower(mediaType) IN
    CASE t \in { <<"m", "p", "3">>, <<"w", "a", "v">>,
                 <<"a", "u", "d", "i", "o">> } ->
            [player |-> "AudioPlayer", err |-> NoError]
      [] t \in { <<"m", "p", "4">>, <<"a", "v", "i">>,
                 <<"v", "i", "d", "e", "o">> } ->
            [player |-> "VideoPlayer", err |-> NoError]
      [] t \in { <<"v", "l", "c">>, <<"m", "k", "v">> } ->
            [player |-> "VLCPlayer", err |-> NoError]
      [] OTHER ->
            [player |-> "none", err |-> UnsupportedError(mediaType)]

InitAdapter ==
    /\ played = <<>>
    /\ received = <<>>
    /\ playRet = [caller |-> "none"]
    /\ plays = 0

\* the effect of MediaAdapter.Play on the players
Invoke(r, fileName) ==
    played' = IF r.player = "none"
              THEN played
              ELSE Append(played, [player |-> r.player, fileName |-> fileName])

\* a client calls MediaAdapter.Play
AdapterPlay ==
    /\ plays < MaxPlays
    /\ \E mediaType \in MediaTypes, fileName \in FileNames :
        LET r == MediaAdapterPlay(mediaType, fileName) IN
        /\ Invoke(r, fileName)
        /\ playRet' = [caller |-> "MediaAdapter", mediaType |-> mediaType,
                       fileName |-> fileName, err |-> r.err]
    /\ plays' = plays + 1
    /\ UNCHANGED <<received, adapterRest>>

\* a client calls AdvancedMediaPlayer.Play
AdvancedPlay ==
    /\ plays < MaxPlays
    /\ \E mediaType \in MediaTypes, fileName \in FileNames :
        LET r == MediaAdapterPlay(mediaType, fileName) IN
        /\ received' = Append(received, <<mediaType, fileName>>)
        /\ Invoke(r, fileName)
        /\ playRet' = [caller |-> "AdvancedMediaPlayer",
                       mediaType |-> mediaType, fileName |-> fileName,
                       err |-> r.err]
    /\ plays' = plays + 1
    /\ UNCHANGED adapterRest

NextAdapter ==
    \/ AdapterPlay
    \/ AdvancedPlay

SupportedMediaTypes ==
    { <<"m", "p", "3">>, <<"w", "a", "v">>, <<"a", "u", "d", "i", "o">>,
      <<"m", "p", "4">>, <<"a", "v", "i">>, <<"v", "i", "d", "e", "o">>,
      <<"v", "l", "c">>, <<"m", "k", "v">> }

\* C8: Play fails exactly when the lower-cased media type is unsupported;
\* a failing call invokes no player and returns the error, a succeeding call
\* invokes exactly one player with the file name.
C8_UnsupportedMediaFails ==
    [][plays' = plays + 1 =>
         /\ (playRet'.err # NoError)
               <=> (ToLower(playRet'.mediaType) \notin SupportedMediaTypes)
         /\ playRet'.err # NoError =>
               /\ played' = played
               /\ playRet'.err = UnsupportedError(playRet'.mediaType)
         /\ playRet'.err = NoError =>
               /\ Len(played') = Len(played) + 1
               /\ SubSeq(played', 1, Len(played)) = played
               /\ played'[Len(played')].fileName = playRet'.fileName]_vars

\* C8 witness: "unknown" was refused after an upper-case "MP3" was played.
C8_Witness ==
    /\ playRet.caller = "AdvancedMediaPlayer"
    /\ playRet.mediaType = <<"u", "n", "k", "n", "o", "w", "n">>
    /\ playRet.err # NoError
    /\ Len(played) = 1
    /\ received[1][1] = <<"M", "P", "3">>

-----------------------------------------------------------------------------
(* Protection proxy: DatabaseProxy over RealDatabase.  A query is a         *)
(* sequence of characters, since checkAccess slices it.                     *)

Roles == { "admin", "user", "guest" }

Sqls ==
    { <<"S", "E", "L", "E", "C", "T", " ", "1">>,
      <<"s", "e", "l", "e", "c", "t">>,
      <<"S", "e", "l", "e", "c", "t", " ", "1">>,
      <<"D", "E", "L", "E", "T", "E", " ", "1">>,
      <<"D", "R", "O", "P">>,
      <<>> }

\* sql[:6] panics when the string has fewer than six bytes
SliceOutOfRange(sql) == Len(sql) < 6

Slice6(sql) == SubSeq(sql, 1, 6)

\* DatabaseProxy.checkAccess: "true", "false", or "panic" when sql[:6] panics
checkAccess(userRole, sql) ==
    IF userRole = "admin" THEN "true"
    ELSE IF userRole = "user"
         THEN IF SliceOutOfRange(sql) THEN "panic"
              ELSE IF Slice6(sql) = <<"S", "E", "L", "E", "C", "T">>
                         \/ Slice6(sql) = <<"s", "e", "l", "e", "c", "t">>
                   THEN "true"
                   ELSE "false"
         ELSE "false"

InitDB ==
    /\ dbRole = ""
    /\ dbOpen = FALSE
    /\ dbTrace = <<>>
    /\ dbRet = [sql |-> <<>>, result |-> "none"]
    /\ dbQueries = 0
    /\ dbPanicked = FALSE

\* NewDatabaseProxy(userRole), which connects a RealDatabase
NewDatabaseProxy ==
    /\ ~dbPanicked
    /\ \E userRole \in Roles : dbRole' = userRole
    /\ dbOpen' = TRUE
    /\ UNCHANGED <<dbTrace, dbRet, dbQueries, dbPanicked, dbRest>>

\* DatabaseProxy.Query(sql)
DatabaseProxyQuery ==
    /\ ~dbPanicked /\ dbOpen /\ dbQueries < MaxQueries
    /\ \E sql \in Sqls :
        LET access == checkAccess(dbRole, sql) IN
        IF access = "panic"
        THEN /\ dbPanicked' = TRUE
             /\ dbRet' = [sql |-> sql, result |-> "panic"]
             /\ UNCHANGED dbTrace
        ELSE IF access = "false"
        THEN /\ dbRet' = [sql |-> sql, result |-> "ACCESS_DENIED"]
             /\ UNCHANGED <<dbTrace, dbPanicked>>
        ELSE /\ dbTrace' = dbTrace \o
                    << [event |-> "RealDatabase.Query", sql |-> sql],
                       [event |-> "logQuery", sql |-> sql,
                        userRole |-> dbRole] >>
             /\ dbRet' = [sql |-> sql, result |-> "QUERY_RESULT"]
             /\ UNCHANGED dbPanicked
    /\ dbQueries' = dbQueries + 1
    /\ UNCHANGED <<dbRole, dbOpen, dbRest>>

NextDB ==
    \/ NewDatabaseProxy
    \/ DatabaseProxyQuery

\* a SELECT query: one that starts with "SELECT" or "select"
IsSelectQuery(sql) ==
    /\ Len(sql) >= 6
    /\ SubSeq(sql, 1, 6) \in { <<"S", "E", "L", "E", "C", "T">>,
                               <<"s", "e", "l", "e", "c", "t">> }

\* what the role-based policy permits
Permitted(userRole, sql) ==
    \/ userRole = "admin"
    \/ userRole = "user" /\ IsSelectQuery(sql)

\* C9: admins run any query, users only SELECT queries, other roles none; a
\* denied query returns "ACCESS_DENIED" and reaches neither the database nor
\* the log, a granted one is forwarded once and then logged.
C9_RoleBasedAccess ==
    [][dbQueries' = dbQueries + 1 =>
         IF Permitted(dbRole, dbRet'.sql)
         THEN /\ dbRet'.result = "QUERY_RESULT"
              /\ dbTrace' = dbTrace \o
                    << [event |-> "RealDatabase.Query", sql |-> dbRet'.sql],
                       [event |-> "logQuery", sql |-> dbRet'.sql,
                        userRole |-> dbRole] >>
         ELSE /\ dbRet'.result = "ACCESS_DENIED"
              /\ dbTrace' = dbTrace]_vars


\* C25: Query is total: for every role and every SQL string it returns the
\* real database's result or "ACCESS_DENIED", and never aborts.
C25_QueryIsTotal ==
    /\ ~dbPanicked
    /\ dbRet.result \in { "none", "QUERY_RESULT", "ACCESS_DENIED" }

-----------------------------------------------------------------------------
(* Singleton: GetDatabaseInstance.  once.Do(f) is sync.Once: an atomic     *)
(* load of the done flag, then under the mutex a second test of the flag,  *)
(* f, and the store of the flag before the mutex is released.  main calls  *)
(* GetDatabaseInstance itself before simulateConcurrentAccess starts five  *)
(* goroutines that each call it once.                                      *)

NumGoroutines == 5

MainCalls == 2

Callers == 1..NumGoroutines

\* values time.Now() may yield
Times == {1, 2}

\* &Database{connectionString: ..., connections: 0, createdAt: time.Now()}
NewDatabase(now) ==
    [connectionString |-> "localhost:5432/myapp", connections |-> 0,
     createdAt |-> now]

InitOnce ==
    /\ databaseInstance = 0
    /\ dbObjects = <<>>
    /\ onceDone = FALSE
    /\ onceM = 0
    /\ initRuns = 0
    /\ mainRet = <<>>
    /\ spawned = FALSE
    /\ spc = [g \in Callers |-> "start"]
    /\ sret = [g \in Callers |-> 0]

\* main: db := GetDatabaseInstance(), while no other goroutine exists
MainGetDatabaseInstance ==
    /\ ~spawned /\ Len(mainRet) < MainCalls
    /\ IF onceDone
       THEN /\ mainRet' = Append(mainRet, databaseInstance)
            /\ UNCHANGED <<databaseInstance, dbObjects, onceDone, initRuns>>
       ELSE /\ \E now \in Times :
                 dbObjects' = Append(dbObjects, NewDatabase(now))
            /\ databaseInstance' = Len(dbObjects) + 1
            /\ initRuns' = initRuns + 1
            /\ onceDone' = TRUE
            /\ mainRet' = Append(mainRet, Len(dbObjects) + 1)
    /\ UNCHANGED <<onceM, spawned, spc, sret, onceRest>>

\* simulateConcurrentAccess: the loop of go statements
Spawn ==
    /\ ~spawned
    /\ spawned' = TRUE
    /\ UNCHANGED <<databaseInstance, dbObjects, onceDone, onceM, initRuns,
                   mainRet, spc, sret, onceRest>>

\* Once.Do: if o.done.Load() == 0 { o.doSlow(f) }
OnceFast(g) ==
    /\ spawned /\ spc[g] = "start"
    /\ spc' = [spc EXCEPT ![g] = IF onceDone THEN "ret" ELSE "lock"]
    /\ UNCHANGED <<databaseInstance, dbObjects, onceDone, onceM, initRuns,
                   mainRet, spawned, sret, onceRest>>

\* doSlow: o.m.Lock()
OnceLock(g) ==
    /\ spc[g] = "lock" /\ onceM = 0
    /\ onceM' = g
    /\ spc' = [spc EXCEPT ![g] = "slow"]
    /\ UNCHANGED <<databaseInstance, dbObjects, onceDone, initRuns, mainRet,
                   spawned, sret, onceRest>>

\* doSlow calling f whatever the done flag says
OnceSlowNoRecheck(g) ==
    /\ spc[g] = "slow"
    /\ spc' = [spc EXCEPT ![g] = "init"]
    /\ UNCHANGED <<databaseInstance, dbObjects, onceDone, onceM, initRuns,
                   mainRet, spawned, sret, onceRest>>

\* doSlow: if o.done.Load() == 0 { defer o.done.Store(1); f() }
OnceSlow(g) ==
    /\ spc[g] = "slow"
    /\ spc' = [spc EXCEPT ![g] = IF onceDone THEN "unlock" ELSE "init"]
    /\ UNCHANGED <<databaseInstance, dbObjects, onceDone, onceM, initRuns,
                   mainRet, spawned, sret, onceRest>>

\* f: databaseInstance = &Database{...}
OnceInit(g) ==
    /\ spc[g] = "init"
    /\ \E now \in Times : dbObjects' = Append(dbObjects, NewDatabase(now))
    /\ databaseInstance' = Len(dbObjects) + 1
    /\ initRuns' = initRuns + 1
    /\ spc' = [spc EXCEPT ![g] = "store"]
    /\ UNCHANGED <<onceDone, onceM, mainRet, spawned, sret, onceRest>>

\* the deferred o.done.Store(1)
OnceStore(g) ==
    /\ spc[g] = "store"
    /\ onceDone' = TRUE
    /\ spc' = [spc EXCEPT ![g] = "unlock"]
    /\ UNCHANGED <<databaseInstance, dbObjects, onceM, initRuns, mainRet,
                   spawned, sret, onceRest>>

\* the deferred o.m.Unlock()
OnceUnlock(g) ==
    /\ spc[g] = "unlock" /\ onceM = g
    /\ onceM' = 0
    /\ spc' = [spc EXCEPT ![g] = "ret"]
    /\ UNCHANGED <<databaseInstance, dbObjects, onceDone, initRuns, mainRet,
                   spawned, sret, onceRest>>

\* return databaseInstance
GetDatabaseInstanceReturn(g) ==
    /\ spc[g] = "ret"
    /\ sret' = [sret EXCEPT ![g] = databaseInstance]
    /\ spc' = [spc EXCEPT ![g] = "done"]
    /\ UNCHANGED <<databaseInstance, dbObjects, onceDone, onceM, initRuns,
                   mainRet, spawned, onceRest>>

NextOnce ==
    \/ MainGetDatabaseInstance
    \/ Spawn
    \/ \E g \in Callers : OnceFast(g)
    \/ \E g \in Callers : OnceLock(g)
    \/ \E g \in Callers : OnceSlow(g)
    \/ \E g \in Callers : OnceInit(g)
    \/ \E g \in Callers : OnceStore(g)
    \/ \E g \in Callers : OnceUnlock(g)
    \/ \E g \in Callers : GetDatabaseInstanceReturn(g)

\* every field of the Database literal has been set
FullyInitialized(db) ==
    /\ db.connectionString = "localhost:5432/myapp"
    /\ db.createdAt \in Times

\* the references GetDatabaseInstance has returned so far
Returned ==
    { sret[g] : g \in { h \in Callers : spc[h] = "done" } }
        \cup { mainRet[i] : i \in 1..Len(mainRet) }

\* C10: however the calls interleave, the initialisation runs once, and every
\* call returns the same non-nil, fully initialised Database.
C10_InitializedExactlyOnce ==
    /\ initRuns <= 1
    /\ Len(dbObjects) = initRuns
    /\ Returned # {} =>
          /\ initRuns = 1
          /\ Returned = {databaseInstance}
          /\ databaseInstance \in 1..Len(dbObjects)
          /\ FullyInitialized(dbObjects[databaseInstance])

\* C10 witness: all five goroutines have returned, the first use of the
\* singleton having been theirs.
C10_Witness ==
    /\ \A g \in Callers : spc[g] = "done"
    /\ mainRet = <<>>
    /\ initRuns = 1

-----------------------------------------------------------------------------
(* Prototype: Address, Author, Resume, Report.  A []string is a slice       *)
(* header (array, len, cap) over a backing array; a Document is a pointer   *)
(* into pDocs.                                                              *)

NilSlice == [arr |-> 0, len |-> 0, cap |-> 0]

\* the elements s[0:len] of a slice
Elems(arrs, s) == IF s.len = 0 THEN <<>> ELSE SubSeq(arrs[s.arr], 1, s.len)

\* the slice assigned instead of a copy
CloneSliceShallow(arrs, s) == [arrs |-> arrs, slice |-> s]

\* c := make([]string, len(s)); copy(c, s)
CloneSlice(arrs, s) ==
    [arrs  |-> Append(arrs, Elems(arrs, s)),
     slice |-> [arr |-> Len(arrs) + 1, len |-> s.len, cap |-> s.len]]

\* append(s, v): in place while capacity lasts, else into a doubled array
AppendSlice(arrs, s, v) ==
    IF s.len < s.cap
    THEN [arrs  |-> [arrs EXCEPT ![s.arr][s.len + 1] = v],
          slice |-> [s EXCEPT !.len = s.len + 1]]
    ELSE LET newcap == IF s.cap = 0 THEN 1 ELSE 2 * s.cap IN
         [arrs  |-> Append(arrs,
                       [i \in 1..newcap |->
                          IF i <= s.len THEN arrs[s.arr][i]
                          ELSE IF i = s.len + 1 THEN v ELSE ""]),
          slice |-> [arr |-> Len(arrs) + 1, len |-> s.len + 1,
                     cap |-> newcap]]

\* Address.Clone
AddressClone(addrs, a) ==
    [addrs |-> Append(addrs, [Street  |-> addrs[a].Street,
                              City    |-> addrs[a].City,
                              Country |-> addrs[a].Country,
                              ZipCode |-> addrs[a].ZipCode]),
     ptr   |-> Len(addrs) + 1]

\* Author.Clone
AuthorClone(authors, addrs, a) ==
    LET ac == AddressClone(addrs, authors[a].Address) IN
    [authors |-> Append(authors, [Name    |-> authors[a].Name,
                                  Email   |-> authors[a].Email,
                                  Address |-> ac.ptr]),
     addrs   |-> ac.addrs,
     ptr     |-> Len(authors) + 1]

\* dataCopy := make(map[string]interface{}); for k, v := range data {...}
CloneData(maps, data) ==
    [maps |-> Append(maps, IF data = 0 THEN << >>
                           ELSE [k \in DOMAIN maps[data] |-> maps[data][k]]),
     ptr  |-> Len(maps) + 1]

\* Resume.Clone and Report.Clone on document d at time now: the heaps
\* afterwards and the pointer returned
DocumentClone(d, now) ==
    LET r  == pDocs[d]
        au == AuthorClone(pAuthors, pAddrs, r.Author)
    IN
    IF r.kind = "Resume"
    THEN LET ex == CloneSlice(pArrs, r.Experience)
             sk == CloneSlice(ex.arrs, r.Skills)
         IN [docs |-> Append(pDocs,
                        [kind |-> "Resume", Title |-> r.Title,
                         Content |-> r.Content, Author |-> au.ptr,
                         CreatedAt |-> r.CreatedAt, ModifiedAt |-> now,
                         Version |-> r.Version + 1,
                         Experience |-> ex.slice, Skills |-> sk.slice,
                         Education |-> r.Education, ReportType |-> "",
                         Department |-> "", Quarter |-> "", Data |-> 0]),
             authors |-> au.authors, addrs |-> au.addrs, arrs |-> sk.arrs,
             maps |-> pMaps, ptr |-> Len(pDocs) + 1]
    ELSE LET dc == CloneData(pMaps, r.Data)
         IN [docs |-> Append(pDocs,
                        [kind |-> "Report", Title |-> r.Title,
                         Content |-> r.Content, Author |-> au.ptr,
                         CreatedAt |-> r.CreatedAt, ModifiedAt |-> now,
                         Version |-> r.Version + 1,
                         Experience |-> NilSlice, Skills |-> NilSlice,
                         Education |-> "", ReportType |-> r.ReportType,
                         Department |-> r.Department,
                         Quarter |-> r.Quarter, Data |-> dc.ptr]),
             authors |-> au.authors, addrs |-> au.addrs, arrs |-> pArrs,
             maps |-> dc.maps, ptr |-> Len(pDocs) + 1]

\* main, lines 188-246: address, author, originalResume, originalReport
InitProto ==
    /\ pAddrs = << [Street |-> "123 Tech Street", City |-> "San Francisco",
                    Country |-> "USA", ZipCode |-> "94102"] >>
    /\ pAuthors = << [Name |-> "John Doe", Email |-> "john.doe@example.com",
                      Address |-> 1] >>
    /\ pArrs = << <<"Company A - 3 years", "Company B - 2 years">>,
                  <<"Go", "Python", "Docker", "Kubernetes">> >>
    /\ pMaps = << [k \in {"revenue", "growth", "customers"} |->
                     CASE k = "revenue" -> "1500000"
                       [] k = "growth" -> "15.5"
                       [] k = "customers" -> "1250"] >>
    /\ LET created == 1 IN
         pDocs = << [kind |-> "Resume", Title |-> "Software Engineer Resume",
                     Content |-> "Experienced software engineer...",
                     Author |-> 1, CreatedAt |-> created,
                     ModifiedAt |-> created, Version |-> 1,
                     Experience |-> [arr |-> 1, len |-> 2, cap |-> 2],
                     Skills |-> [arr |-> 2, len |-> 4, cap |-> 4],
                     Education |-> "BS Computer Science", ReportType |-> "",
                     Department |-> "", Quarter |-> "", Data |-> 0],
                    [kind |-> "Report", Title |-> "Q1 Sales Report",
                     Content |-> "Sales performance for Q1...",
                     Author |-> 1, CreatedAt |-> created,
                     ModifiedAt |-> created, Version |-> 1,
                     Experience |-> NilSlice, Skills |-> NilSlice,
                     Education |-> "", ReportType |-> "Sales",
                     Department |-> "Sales & Marketing",
                     Quarter |-> "Q1 2024", Data |-> 1] >>
    /\ pCloneOf = <<0, 0>>
    /\ pRegistry = EmptyMap
    /\ pLast = [op |-> "none", doc |-> 0]
    /\ pClones = 0
    /\ pMutations = 0
    /\ pRegisters = 0

Docs == 1..Len(pDocs)

\* values a client assigns
Edits == { "edited" }

DataKeys == { "revenue", "notes" }

AddressFields == { "Street", "City", "Country", "ZipCode" }

\* bookkeeping of one mutation of document d
Mutated(op, d) ==
    /\ pMutations' = pMutations + 1
    /\ pLast' = [op |-> op, doc |-> d]
    /\ UNCHANGED <<pCloneOf, pRegistry, pClones, pRegisters>>

\* clone := doc.Clone()
ProtoClone ==
    /\ pClones < MaxClones
    /\ \E d \in Docs, now \in Times :
        LET c == DocumentClone(d, now) IN
        /\ pDocs' = c.docs
        /\ pAuthors' = c.authors
        /\ pAddrs' = c.addrs
        /\ pArrs' = c.arrs
        /\ pMaps' = c.maps
        /\ pCloneOf' = Append(pCloneOf, d)
        /\ pLast' = [op |-> "Clone", doc |-> d, result |-> c.ptr]
    /\ pClones' = pClones + 1
    /\ UNCHANGED <<pRegistry, pRegisters, pMutations, protoRest>>

\* doc.SetTitle(title)
SetTitle ==
    /\ pMutations < MaxMutations
    /\ \E d \in Docs, title \in Edits :
        /\ pDocs' = [pDocs EXCEPT ![d].Title = title]
        /\ Mutated("SetTitle", d)
    /\ UNCHANGED <<pAuthors, pAddrs, pArrs, pMaps, protoRest>>

\* doc.SetContent(content)
SetContent ==
    /\ pMutations < MaxMutations
    /\ \E d \in Docs, content \in Edits :
        /\ pDocs' = [pDocs EXCEPT ![d].Content = content]
        /\ Mutated("SetContent", d)
    /\ UNCHANGED <<pAuthors, pAddrs, pArrs, pMaps, protoRest>>

\* doc.Author.Name = v
SetAuthorName ==
    /\ pMutations < MaxMutations
    /\ \E d \in Docs, v \in Edits :
        /\ pAuthors' = [pAuthors EXCEPT ![pDocs[d].Author].Name = v]
        /\ Mutated("Author.Name", d)
    /\ UNCHANGED <<pDocs, pAddrs, pArrs, pMaps, protoRest>>

\* doc.Author.Email = v
SetAuthorEmail ==
    /\ pMutations < MaxMutations
    /\ \E d \in Docs, v \in Edits :
        /\ pAuthors' = [pAuthors EXCEPT ![pDocs[d].Author].Email = v]
        /\ Mutated("Author.Email", d)
    /\ UNCHANGED <<pDocs, pAddrs, pArrs, pMaps, protoRest>>

\* doc.Author.Address.<field> = v
SetAddressField ==
    /\ pMutations < MaxMutations
    /\ \E d \in Docs, field \in AddressFields, v \in Edits :
        /\ pAddrs' = [pAddrs EXCEPT
                        ![pAuthors[pDocs[d].Author].Address][field] = v]
        /\ Mutated("Author.Address", d)
    /\ UNCHANGED <<pDocs, pAuthors, pArrs, pMaps, protoRest>>

\* resume.Skills[i] = v
SetSkill ==
    /\ pMutations < MaxMutations
    /\ \E d \in Docs, v \in Edits :
        /\ pDocs[d].kind = "Resume"
        /\ \E i \in 1..pDocs[d].Skills.len :
             pArrs' = [pArrs EXCEPT ![pDocs[d].Skills.arr][i] = v]
        /\ Mutated("Skills[i]", d)
    /\ UNCHANGED <<pDocs, pAuthors, pAddrs, pMaps, protoRest>>

\* resume.Experience[i] = v
SetExperience ==
    /\ pMutations < MaxMutations
    /\ \E d \in Docs, v \in Edits :
        /\ pDocs[d].kind = "Resume"
        /\ \E i \in 1..pDocs[d].Experience.len :
             pArrs' = [pArrs EXCEPT ![pDocs[d].Experience.arr][i] = v]
        /\ Mutated("Experience[i]", d)
    /\ UNCHANGED <<pDocs, pAuthors, pAddrs, pMaps, protoRest>>

\* resume.Skills = append(resume.Skills, v)
AppendSkill ==
    /\ pMutations < MaxMutations
    /\ \E d \in Docs, v \in Edits :
        /\ pDocs[d].kind = "Resume"
        /\ LET a == AppendSlice(pArrs, pDocs[d].Skills, v) IN
             /\ pArrs' = a.arrs
             /\ pDocs' = [pDocs EXCEPT ![d].Skills = a.slice]
        /\ Mutated("append(Skills)", d)
    /\ UNCHANGED <<pAuthors, pAddrs, pMaps, protoRest>>

\* resume.Experience = append(resume.Experience, v)
AppendExperience ==
    /\ pMutations < MaxMutations
    /\ \E d \in Docs, v \in Edits :
        /\ pDocs[d].kind = "Resume"
        /\ LET a == AppendSlice(pArrs, pDocs[d].Experience, v) IN
             /\ pArrs' = a.arrs
             /\ pDocs' = [pDocs EXCEPT ![d].Experience = a.slice]
        /\ Mutated("append(Experience)", d)
    /\ UNCHANGED <<pAuthors, pAddrs, pMaps, protoRest>>

\* report.Data[k] = v
PutData ==
    /\ pMutations < MaxMutations
    /\ \E d \in Docs, k \in DataKeys, v \in Edits :
        /\ pDocs[d].kind = "Report"
        /\ pMaps' = [pMaps EXCEPT
                       ![pDocs[d].Data] = MapPut(pMaps[pDocs[d].Data], k, v)]
        /\ Mutated("Data[k]", d)
    /\ UNCHANGED <<pDocs, pAuthors, pAddrs, pArrs, protoRest>>

\* names under which prototypes are registered and looked up
RegistryNames == { "resume-template", "report-template" }

\* the registered prototype handed out instead of a clone
RegistryCreateShared(name, now) ==
    [docs |-> pDocs, authors |-> pAuthors, addrs |-> pAddrs,
     arrs |-> pArrs, maps |-> pMaps,
     ptr |-> IF name \in DOMAIN pRegistry THEN pRegistry[name] ELSE 0]

\* DocumentRegistry.Create: the heaps afterwards and the Document returned
\* (0 is nil)
RegistryCreate(name, now) ==
    IF name \in DOMAIN pRegistry
    THEN DocumentClone(pRegistry[name], now)
    ELSE [docs |-> pDocs, authors |-> pAuthors, addrs |-> pAddrs,
          arrs |-> pArrs, maps |-> pMaps, ptr |-> 0]

\* registry.Register(name, doc)
Register ==
    /\ pRegisters < MaxRegisters
    /\ \E name \in RegistryNames, d \in Docs :
        /\ pRegistry' = MapPut(pRegistry, name, d)
        /\ pLast' = [op |-> "Register", doc |-> d, name |-> name]
    /\ pRegisters' = pRegisters + 1
    /\ UNCHANGED <<pDocs, pAuthors, pAddrs, pArrs, pMaps, pCloneOf, pClones,
                   pMutations, protoRest>>

\* doc := registry.Create(name)
Create ==
    /\ pClones < MaxClones
    /\ \E name \in RegistryNames, now \in Times :
        LET c == RegistryCreate(name, now) IN
        /\ pDocs' = c.docs
        /\ pAuthors' = c.authors
        /\ pAddrs' = c.addrs
        /\ pArrs' = c.arrs
        /\ pMaps' = c.maps
        /\ pCloneOf' = IF Len(c.docs) > Len(pDocs)
                       THEN Append(pCloneOf, pRegistry[name])
                       ELSE pCloneOf
        /\ pLast' = [op |-> "Create", doc |-> c.ptr, name |-> name]
    /\ pClones' = pClones + 1
    /\ UNCHANGED <<pRegistry, pRegisters, pMutations, protoRest>>

NextProto ==
    \/ ProtoClone
    \/ Register
    \/ Create
    \/ SetTitle
    \/ SetContent
    \/ SetAuthorName
    \/ SetAuthorEmail
    \/ SetAddressField
    \/ SetSkill
    \/ SetExperience
    \/ AppendSkill
    \/ AppendExperience
    \/ PutData

\* everything reachable from a document, pointers followed
DeepValue(docs, authors, addrs, arrs, maps, d) ==
    [kind |-> docs[d].kind, Title |-> docs[d].Title,
     Content |-> docs[d].Content,
     AuthorName |-> authors[docs[d].Author].Name,
     AuthorEmail |-> authors[docs[d].Author].Email,
     Address |-> addrs[authors[docs[d].Author].Address],
     CreatedAt |-> docs[d].CreatedAt, ModifiedAt |-> docs[d].ModifiedAt,
     Version |-> docs[d].Version,
     Experience |-> Elems(arrs, docs[d].Experience),
     Skills |-> Elems(arrs, docs[d].Skills),
     Education |-> docs[d].Education, ReportType |-> docs[d].ReportType,
     Department |-> docs[d].Department, Quarter |-> docs[d].Quarter,
     Data |-> IF docs[d].Data = 0 THEN << >> ELSE maps[docs[d].Data]]

\* one document is the clone of the other
CloneAndOriginal(d, e) == pCloneOf[d] = e \/ pCloneOf[e] = d

\* C11: a clone and its original are independent: a mutation of either one
\* (title, content, author, address, slice elements, appends, map entries)
\* leaves everything reachable from the other unchanged, and Clone itself
\* changes no existing document.
C11_CloneIsIndependent ==
    [][/\ pMutations' = pMutations + 1 =>
            \A e \in Docs :
                (e # pLast'.doc /\ CloneAndOriginal(pLast'.doc, e))
                => DeepValue(pDocs', pAuthors', pAddrs', pArrs', pMaps', e)
                      = DeepValue(pDocs, pAuthors, pAddrs, pArrs, pMaps, e)
       /\ pClones' = pClones + 1 =>
            \A e \in Docs :
                DeepValue(pDocs', pAuthors', pAddrs', pArrs', pMaps', e)
                   = DeepValue(pDocs, pAuthors, pAddrs, pArrs, pMaps, e)]_vars

\* C11 witness: a cloned resume had a skill overwritten and the original
\* still lists its own skills.
C11_Witness ==
    /\ pLast.op = "Skills[i]"
    /\ pCloneOf[pLast.doc] = 1
    /\ Elems(pArrs, pDocs[pLast.doc].Skills)[1] = "edited"
    /\ Elems(pArrs, pDocs[1].Skills) = <<"Go", "Python", "Docker", "Kubernetes">>


\* C22: Create(name) returns nil when nothing is registered under name;
\* otherwise it returns a newly allocated document, never the prototype,
\* that equals the prototype last registered under name except for
\* ModifiedAt and a Version one higher; the registry and every existing
\* document stay as they were.
C22_CreateClonesRegisteredPrototype ==
    [][(pLast'.op = "Create" /\ pClones' = pClones + 1) =>
         /\ pRegistry' = pRegistry
         /\ \A e \in Docs :
              DeepValue(pDocs', pAuthors', pAddrs', pArrs', pMaps', e)
                 = DeepValue(pDocs, pAuthors, pAddrs, pArrs, pMaps, e)
         /\ IF pLast'.name \notin DOMAIN pRegistry
            THEN pLast'.doc = 0 /\ pDocs' = pDocs
            ELSE LET proto == DeepValue(pDocs, pAuthors, pAddrs, pArrs, pMaps,
                                        pRegistry[pLast'.name])
                     made == DeepValue(pDocs', pAuthors', pAddrs', pArrs',
                                       pMaps', pLast'.doc)
                 IN /\ pLast'.doc \in (1..Len(pDocs')) \ Docs
                    /\ pLast'.doc # pRegistry[pLast'.name]
                    /\ made.Version = proto.Version + 1
                    /\ [made EXCEPT !.Version = proto.Version,
                                    !.ModifiedAt = proto.ModifiedAt] = proto
       ]_vars

\* C22 witness: after two registrations under one name, Create returned a
\* clone of the report registered last.
C22_Witness ==
    /\ pLast.op = "Create"
    /\ pRegisters = 2
    /\ DOMAIN pRegistry = { "report-template" }
    /\ pRegistry["report-template"] = 2
    /\ pLast.doc = 3
    /\ pCloneOf[3] = 2
    /\ pDocs[3].Version = 2

-----------------------------------------------------------------------------
(* Smart proxy: RealBankAccount and BankAccountProxy                        *)

\* PINs a caller enters: the account's and a wrong one
Pins == { "1234", "0000" }

\* amounts a caller asks for
Amounts == { 100, 600 }

\* RealBankAccount.Withdraw: the balance afterwards and the result
RealWithdraw(balance, amount) ==
    IF balance >= amount
    THEN [balance |-> balance - amount, ret |-> TRUE]
    ELSE [balance |-> balance, ret |-> FALSE]

\* the counter left alone by a successful authentication
AuthenticateNoReset(p, enteredPin, amount) ==
    IF p.locked
    THEN [p EXCEPT !.ret = FALSE]
    ELSE IF enteredPin # p.pin
    THEN [p EXCEPT !.attemptCount = p.attemptCount + 1,
                   !.locked = (p.attemptCount + 1 >= 3),
                   !.ret = FALSE]
    ELSE LET w == RealWithdraw(p.balance, amount) IN
         [p EXCEPT !.balance = w.balance, !.ret = w.ret]

\* the locked flag not consulted
AuthenticateIgnoringLock(p, enteredPin, amount) ==
    IF enteredPin # p.pin
    THEN [p EXCEPT !.attemptCount = p.attemptCount + 1,
                   !.locked = (p.attemptCount + 1 >= 3),
                   !.ret = FALSE]
    ELSE LET w == RealWithdraw(p.balance, amount) IN
         [p EXCEPT !.attemptCount = 0, !.balance = w.balance,
                   !.ret = w.ret]

\* BankAccountProxy.AuthenticateAndWithdraw on proxy state p
Authenticate(p, enteredPin, amount) ==
    IF p.locked
    THEN [p EXCEPT !.ret = FALSE]
    ELSE IF enteredPin # p.pin
    THEN [p EXCEPT !.attemptCount = p.attemptCount + 1,
                   !.locked = (p.attemptCount + 1 >= 3),
                   !.ret = FALSE]
    ELSE LET w == RealWithdraw(p.balance, amount) IN
         [p EXCEPT !.attemptCount = 0, !.balance = w.balance,
                   !.ret = w.ret]

\* account := NewBankAccountProxy("ACC123", 1000.00, "1234")
InitBank ==
    /\ bkPin = "1234"
    /\ bkBalance = 1000
    /\ attemptCount = 0
    /\ locked = FALSE
    /\ bkLast = [op |-> "none"]
    /\ bkStreak = 0
    /\ bkCalls = 0

\* account.AuthenticateAndWithdraw(enteredPin, amount)
AuthenticateAndWithdraw ==
    /\ bkCalls < MaxBankCalls
    /\ \E enteredPin \in Pins, amount \in Amounts :
        LET q == Authenticate([pin |-> bkPin, balance |-> bkBalance,
                               attemptCount |-> attemptCount,
                               locked |-> locked, ret |-> FALSE],
                              enteredPin, amount)
        IN
        /\ bkBalance' = q.balance
        /\ attemptCount' = q.attemptCount
        /\ locked' = q.locked
        /\ bkLast' = [op |-> "AuthenticateAndWithdraw", pin |-> enteredPin,
                      amount |-> amount, ret |-> q.ret]
        /\ bkStreak' = IF enteredPin # bkPin THEN bkStreak + 1
                       ELSE IF locked THEN bkStreak ELSE 0
    /\ bkCalls' = bkCalls + 1
    /\ UNCHANGED <<bkPin, bankRest>>

\* account.Withdraw(amount): forwarded to the real account
ProxyWithdraw ==
    /\ bkCalls < MaxBankCalls
    /\ \E amount \in Amounts :
        LET w == RealWithdraw(bkBalance, amount) IN
        /\ bkBalance' = w.balance
        /\ bkLast' = [op |-> "Withdraw", amount |-> amount, ret |-> w.ret]
    /\ bkCalls' = bkCalls + 1
    /\ UNCHANGED <<bkPin, attemptCount, locked, bkStreak, bankRest>>

\* account.GetBalance()
ProxyGetBalance ==
    /\ bkCalls < MaxBankCalls
    /\ bkLast' = [op |-> "GetBalance", ret |-> bkBalance]
    /\ bkCalls' = bkCalls + 1
    /\ UNCHANGED <<bkPin, bkBalance, attemptCount, locked, bkStreak, bankRest>>

NextBank ==
    \/ AuthenticateAndWithdraw
    \/ ProxyWithdraw
    \/ ProxyGetBalance

\* C12: the proxy is locked exactly when three wrong PINs in a row have been
\* entered since creation or the last successful authentication;
\* attemptCount stays within 0..3 and locked holds iff attemptCount is 3.
C12_LockedAtThirdWrongPin ==
    /\ attemptCount \in 0..3
    /\ locked <=> attemptCount = 3
    /\ locked <=> bkStreak >= 3
    /\ ~locked => attemptCount = bkStreak

\* C12 witness: two wrong PINs, a successful authentication, then three
\* wrong PINs have locked the account.
C12_Witness ==
    /\ locked
    /\ bkStreak = 3
    /\ bkCalls > 3
    /\ bkBalance < 1000

\* C13: a locked proxy stays locked, and every AuthenticateAndWithdraw on
\* it returns false and leaves balance and attempt counter as they were.
C13_LockedForever ==
    [][locked =>
         /\ locked'
         /\ bkLast'.op = "AuthenticateAndWithdraw" =>
              /\ bkLast'.ret = FALSE
              /\ bkBalance' = bkBalance
              /\ attemptCount' = attemptCount]_vars

\* C13 witness: the correct PIN was entered on a locked account and refused.
C13_Witness ==
    /\ locked
    /\ bkStreak = 3
    /\ bkLast.op = "AuthenticateAndWithdraw"
    /\ bkLast.pin = bkPin
    /\ bkLast.ret = FALSE


\* C23: the balance changes only in an AuthenticateAndWithdraw call made
\* with the correct PIN on an account that is not locked.
C23_BalanceOnlyAfterAuthentication ==
    [][bkBalance' # bkBalance =>
         /\ bkLast'.op = "AuthenticateAndWithdraw"
         /\ bkLast'.pin = bkPin
         /\ ~locked]_vars

-----------------------------------------------------------------------------
(* Remote proxy: RealServer and LoadBalancerProxy                           *)

\* LoadBalancerProxy.servers
Servers == << "Server-1", "Server-2", "Server-3" >>

Urls == { "/api/users", "/api/products" }

\* RealServer.Request
RealServerRequest(name, url) == "Response from " \o name \o " for " \o url

\* the index never advanced
LoadBalancerRequestSticky(index, url) ==
    [server |-> Servers[index + 1],
     currentIndex |-> index,
     ret |-> RealServerRequest(Servers[index + 1], url)]

\* LoadBalancerProxy.Request with currentIndex = index
LoadBalancerRequest(index, url) ==
    [server |-> Servers[index + 1],
     currentIndex |-> (index + 1) % Len(Servers),
     ret |-> RealServerRequest(Servers[index + 1], url)]

\* NewLoadBalancerProxy
InitLb ==
    /\ currentIndex = 0
    /\ lbServed = << >>
    /\ lbRet = ""

\* loadBalancer.Request(url)
Request ==
    /\ Len(lbServed) < MaxRequests
    /\ \E url \in Urls :
        LET r == LoadBalancerRequest(currentIndex, url) IN
        /\ currentIndex' = r.currentIndex
        /\ lbServed' = Append(lbServed, [server |-> r.server, url |-> url])
        /\ lbRet' = r.ret
    /\ UNCHANGED lbRest

NextLb == Request

\* C14: the k-th request, counted from 0, is served by server k mod 3,
\* currentIndex is always one of 0, 1, 2, and any three consecutive requests
\* are served by the three servers, once each.
C14_RoundRobin ==
    /\ currentIndex \in 0..2
    /\ \A k \in 0..(Len(lbServed) - 1) :
         lbServed[k + 1].server =
            CASE k % 3 = 0 -> "Server-1"
              [] k % 3 = 1 -> "Server-2"
              [] k % 3 = 2 -> "Server-3"
    /\ \A k \in 1..(Len(lbServed) - 2) :
         { lbServed[k].server, lbServed[k + 1].server,
           lbServed[k + 2].server } = { "Server-1", "Server-2", "Server-3" }

\* C14 witness: the fourth request went back to the first server.
C14_Witness ==
    /\ Len(lbServed) = 4
    /\ lbServed[4].server = "Server-1"
    /\ currentIndex = 1

-----------------------------------------------------------------------------
(* Caching proxy: YouTubeDownloader and CachedYouTubeProxy                  *)

VideoIDs == { "dQw4w9WgXcQ", "9bZkp7q19f0" }

\* YouTubeDownloader.Download
YouTubeDownload(videoID) == "VIDEO_DATA_" \o videoID

\* the downloaded data never stored
CachedDownloadNoStore(cache, videoID) ==
    IF videoID \in DOMAIN cache
    THEN [cache |-> cache, downloaded |-> FALSE, ret |-> cache[videoID]]
    ELSE [cache |-> cache, downloaded |-> TRUE,
          ret |-> YouTubeDownload(videoID)]

\* CachedYouTubeProxy.Download
CachedDownload(cache, videoID) ==
    IF videoID \in DOMAIN cache
    THEN [cache |-> cache, downloaded |-> FALSE, ret |-> cache[videoID]]
    ELSE LET data == YouTubeDownload(videoID) IN
         [cache |-> MapPut(cache, videoID, data), downloaded |-> TRUE,
          ret |-> data]

\* NewCachedYouTubeProxy
InitYt ==
    /\ ytCache = EmptyMap
    /\ ytDownloads = << >>
    /\ ytLog = << >>

\* youtube.Download(videoID)
Download ==
    /\ Len(ytLog) < MaxDownloads
    /\ \E videoID \in VideoIDs :
        LET r == CachedDownload(ytCache, videoID) IN
        /\ ytCache' = r.cache
        /\ ytDownloads' = IF r.downloaded THEN Append(ytDownloads, videoID)
                          ELSE ytDownloads
        /\ ytLog' = Append(ytLog, [videoID |-> videoID, ret |-> r.ret])
    /\ UNCHANGED ytRest

NextYt == Download

\* C15: the downloader is invoked at most once per video ID, namely on the
\* first request for it, and all requests for one ID return the same data.
C15_DownloadedAtMostOnce ==
    /\ \A i, j \in 1..Len(ytDownloads) :
         ytDownloads[i] = ytDownloads[j] => i = j
    /\ { ytDownloads[i] : i \in 1..Len(ytDownloads) }
          = { ytLog[i].videoID : i \in 1..Len(ytLog) }
    /\ \A i, j \in 1..Len(ytLog) :
         ytLog[i].videoID = ytLog[j].videoID => ytLog[i].ret = ytLog[j].ret

\* C15 witness: a video was requested three times around a request for
\* another one, and two downloads were made.
C15_Witness ==
    /\ Len(ytLog) = 4
    /\ ytLog[1].videoID = "dQw4w9WgXcQ"
    /\ ytLog[2].videoID = "dQw4w9WgXcQ"
    /\ ytLog[3].videoID = "9bZkp7q19f0"
    /\ ytLog[4].videoID = "dQw4w9WgXcQ"
    /\ Len(ytDownloads) = 2

-----------------------------------------------------------------------------
(* Virtual proxy: RealImage and ImageProxy                                  *)

ImageFiles == { "photo1.jpg", "photo2.jpg" }

\* the real image loaded on every Display
ImageProxyDisplayReloading(proxy, reals) ==
    [realImage |-> Len(reals) + 1,
     reals     |-> Append(reals, [filename |-> proxy.filename]),
     loaded    |-> TRUE,
     shown     |-> proxy.filename]

\* ImageProxy.Display: NewRealImage on first access, then RealImage.Display
ImageProxyDisplay(proxy, reals) ==
    IF proxy.realImage = 0
    THEN [realImage |-> Len(reals) + 1,
          reals     |-> Append(reals, [filename |-> proxy.filename]),
          loaded    |-> TRUE,
          shown     |-> proxy.filename]
    ELSE [realImage |-> proxy.realImage,
          reals     |-> reals,
          loaded    |-> FALSE,
          shown     |-> reals[proxy.realImage].filename]

\* the program before any proxy is created
InitImg ==
    /\ imgProxies = << >>
    /\ imgReal = << >>
    /\ imgLoads = << >>
    /\ imgShown = << >>

\* NewImageProxy(filename)
NewImageProxy ==
    /\ Len(imgProxies) < MaxProxies
    /\ \E filename \in ImageFiles :
        imgProxies' = Append(imgProxies,
                             [filename |-> filename, realImage |-> 0])
    /\ imgShown' = Append(imgShown, [count |-> 0, file |-> ""])
    /\ UNCHANGED <<imgReal, imgLoads, imgRest>>

\* image.Display()
Display ==
    /\ \E p \in 1..Len(imgProxies) :
        /\ imgShown[p].count < MaxDisplays
        /\ LET r == ImageProxyDisplay(imgProxies[p], imgReal) IN
            /\ imgProxies' = [imgProxies EXCEPT ![p].realImage = r.realImage]
            /\ imgReal' = r.reals
            /\ imgLoads' = IF r.loaded
                           THEN Append(imgLoads,
                                  [proxy |-> p,
                                   filename |-> imgProxies[p].filename,
                                   first |-> imgShown[p].count = 0])
                           ELSE imgLoads
            /\ imgShown' = [imgShown EXCEPT
                              ![p] = [count |-> imgShown[p].count + 1,
                                      file |-> r.shown]]
    /\ UNCHANGED imgRest

NextImg ==
    \/ NewImageProxy
    \/ Display

\* the loads one proxy has caused
LoadsOf(p) == { i \in 1..Len(imgLoads) : imgLoads[i].proxy = p }

\* C16: a proxy that was never displayed has loaded nothing; a proxy that
\* was displayed has loaded its file exactly once, on its first Display,
\* and keeps displaying that image; no two proxies share a real image.
C16_LazyLoadOnce ==
    /\ \A p \in 1..Len(imgProxies) :
         IF imgShown[p].count = 0
         THEN imgProxies[p].realImage = 0 /\ LoadsOf(p) = {}
         ELSE /\ Cardinality(LoadsOf(p)) = 1
              /\ \A i \in LoadsOf(p) :
                   imgLoads[i].first
                   /\ imgLoads[i].filename = imgProxies[p].filename
              /\ imgProxies[p].realImage # 0
              /\ imgShown[p].file = imgProxies[p].filename
    /\ \A p, q \in 1..Len(imgProxies) :
         (p # q /\ imgProxies[p].realImage # 0)
         => imgProxies[p].realImage # imgProxies[q].realImage
    /\ Len(imgReal) = Len(imgLoads)

\* C16 witness: of two proxies, the first was displayed twice and loaded
\* once, the second was never displayed and is not loaded.
C16_Witness ==
    /\ Len(imgProxies) = 2
    /\ imgShown[1].count = 2
    /\ Cardinality(LoadsOf(1)) = 1
    /\ imgShown[2].count = 0
    /\ imgProxies[2].realImage = 0

-----------------------------------------------------------------------------
(* Decorator: FileDataSource, EncryptionDecorator, CompressionDecorator.    *)
(* Data is a sequence of characters.                                        *)

EncryptedPrefix == << "E", "N", "C", "R", "Y", "P", "T", "E", "D", "[" >>

CompressedPrefix == << "C", "O", "M", "P", "R", "E", "S", "S", "E", "D", "[" >>

ClosingBracket == << "]" >>

\* strings.TrimPrefix
TrimPrefix(s, prefix) ==
    IF Len(s) >= Len(prefix) /\ SubSeq(s, 1, Len(prefix)) = prefix
    THEN SubSeq(s, Len(prefix) + 1, Len(s))
    ELSE s

\* strings.TrimSuffix
TrimSuffix(s, suffix) ==
    IF Len(s) >= Len(suffix)
       /\ SubSeq(s, Len(s) - Len(suffix) + 1, Len(s)) = suffix
    THEN SubSeq(s, 1, Len(s) - Len(suffix))
    ELSE s

\* EncryptionDecorator.encrypt
Encrypt(data) == EncryptedPrefix \o data \o ClosingBracket

\* every closing bracket at the end cut off
DecryptGreedy(data) ==
    LET n == CHOOSE k \in 0..Len(data) :
                /\ k = 0 \/ data[k] # "]"
                /\ \A i \in (k + 1)..Len(data) : data[i] = "]"
    IN TrimPrefix(SubSeq(data, 1, n), EncryptedPrefix)

\* EncryptionDecorator.decrypt
Decrypt(data) == TrimPrefix(TrimSuffix(data, ClosingBracket), EncryptedPrefix)

\* CompressionDecorator.compress
Compress(data) == CompressedPrefix \o data \o ClosingBracket

\* CompressionDecorator.decompress
Decompress(data) ==
    TrimPrefix(TrimSuffix(data, ClosingBracket), CompressedPrefix)

Layers == { "Encryption", "Compression" }

\* the data a client writes
Datas == { << >>, << "d" >>, << "]" >>, EncryptedPrefix }

\* WriteData called on the outermost decorator of stack: each decorator
\* transforms the data and hands it to its wrappee; the file stores it.
RECURSIVE WriteThrough(_, _)
WriteThrough(stack, data) ==
    IF stack = << >>
    THEN [file |-> data, trace |-> << "write" >>]
    ELSE IF Head(stack) = "Encryption"
    THEN LET inner == WriteThrough(Tail(stack), Encrypt(data)) IN
         [file |-> inner.file, trace |-> << "encrypt" >> \o inner.trace]
    ELSE LET inner == WriteThrough(Tail(stack), Compress(data)) IN
         [file |-> inner.file, trace |-> << "compress" >> \o inner.trace]

\* ReadData called on the outermost decorator of stack: each decorator
\* reads from its wrappee and transforms the result.
RECURSIVE ReadThrough(_, _)
ReadThrough(stack, file) ==
    IF stack = << >>
    THEN [ret |-> file, trace |-> << "read" >>]
    ELSE LET inner == ReadThrough(Tail(stack), file) IN
         IF Head(stack) = "Encryption"
         THEN [ret |-> Decrypt(inner.ret),
               trace |-> Append(inner.trace, "decrypt")]
         ELSE [ret |-> Decompress(inner.ret),
               trace |-> Append(inner.trace, "decompress")]

NotWritten == [written |-> FALSE]

\* NewFileDataSource(filename)
InitDs ==
    /\ dsStack = << >>
    /\ fileData = << >>
    /\ dsTrace = << >>
    /\ dsLast = [op |-> "none"]
    /\ dsWritten = NotWritten

\* source = NewEncryptionDecorator(source)
NewEncryptionDecorator ==
    /\ Len(dsStack) < MaxLayers
    /\ dsStack' = << "Encryption" >> \o dsStack
    /\ dsLast' = [op |-> "NewEncryptionDecorator"]
    /\ UNCHANGED <<fileData, dsTrace, dsWritten, dsRest>>

\* source = NewCompressionDecorator(source)
NewCompressionDecorator ==
    /\ Len(dsStack) < MaxLayers
    /\ dsStack' = << "Compression" >> \o dsStack
    /\ dsLast' = [op |-> "NewCompressionDecorator"]
    /\ UNCHANGED <<fileData, dsTrace, dsWritten, dsRest>>

\* source.WriteData(data)
WriteData ==
    /\ \E data \in Datas :
        LET w == WriteThrough(dsStack, data) IN
        /\ fileData' = w.file
        /\ dsTrace' = w.trace
        /\ dsLast' = [op |-> "WriteData", data |-> data]
        /\ dsWritten' = [written |-> TRUE, data |-> data, stack |-> dsStack]
    /\ UNCHANGED <<dsStack, dsRest>>

\* data := source.ReadData()
ReadData ==
    /\ LET r == ReadThrough(dsStack, fileData) IN
        /\ dsTrace' = r.trace
        /\ dsLast' = [op |-> "ReadData", ret |-> r.ret]
    /\ UNCHANGED <<dsStack, fileData, dsWritten, dsRest>>

NextDs ==
    \/ NewEncryptionDecorator
    \/ NewCompressionDecorator
    \/ WriteData
    \/ ReadData

\* NewEncryptionDecorator(NewCompressionDecorator(NewFileDataSource(f)))
SecureFile == << "Encryption", "Compression" >>

\* C17: through an encryption decorator around a compression decorator,
\* WriteData(d) compresses, then encrypts, and the file stores
\* ENCRYPTED[COMPRESSED[d]]; ReadData decrypts, then decompresses.
C17_CompressThenEncrypt ==
    dsStack = SecureFile =>
        /\ dsLast.op = "WriteData" =>
             /\ dsTrace = << "compress", "encrypt", "write" >>
             /\ fileData = EncryptedPrefix \o CompressedPrefix
                              \o dsLast.data \o << "]", "]" >>
        /\ dsLast.op = "ReadData" =>
             dsTrace = << "read", "decrypt", "decompress" >>

\* C18: whatever the stack of decorators, ReadData after WriteData(d)
\* through the same outermost decorator returns exactly d.
C18_RoundTrip ==
    (/\ dsLast.op = "ReadData"
     /\ dsWritten.written
     /\ dsWritten.stack = dsStack)
    => dsLast.ret = dsWritten.data

\* C18 witness: data ending in a closing bracket was written through two
\* decorators and read back unchanged.
C18_Witness ==
    /\ dsLast.op = "ReadData"
    /\ Len(dsStack) = 2
    /\ dsWritten.written
    /\ dsWritten.stack = dsStack
    /\ dsWritten.data = << "]" >>
    /\ dsLast.ret = << "]" >>

-----------------------------------------------------------------------------
(* Bridge: TV driven through Remote and AdvancedRemote.  A remote holds     *)
(* nothing but its device, so every remote bound to the TV acts on the      *)
(* same three fields.                                                       *)

\* channels an AdvancedRemote sets directly
Channels == { 42, 1015 }

\* TV.SetVolume: the volume stored
ClampVolume(volume) ==
    IF volume > 100 THEN 100 ELSE IF volume < 0 THEN 0 ELSE volume

\* the calls main makes on remotes bound to the TV, in order
DemoCalls ==
    << [op |-> "TogglePower"], [op |-> "VolumeUp"], [op |-> "VolumeUp"],
       [op |-> "ChannelUp"], [op |-> "TogglePower"],
       [op |-> "SetChannel", channel |-> 42] >>

\* tv := NewTV()
InitBr ==
    /\ tvEnabled = FALSE
    /\ tvVolume = 50
    /\ tvChannel = 1
    /\ brScript = 0
    /\ brOps = 0

\* bookkeeping of one remote call
Called(call) ==
    /\ brOps < MaxRemoteOps
    /\ brOps' = brOps + 1
    /\ brScript' = IF /\ brScript >= 0
                      /\ brScript < Len(DemoCalls)
                      /\ DemoCalls[brScript + 1] = call
                   THEN brScript + 1
                   ELSE -1
    /\ UNCHANGED brRest

\* Remote.TogglePower
TogglePower ==
    /\ Called([op |-> "TogglePower"])
    /\ tvEnabled' = IF tvEnabled THEN FALSE ELSE TRUE
    /\ UNCHANGED <<tvVolume, tvChannel>>

\* Remote.VolumeUp
VolumeUp ==
    /\ Called([op |-> "VolumeUp"])
    /\ tvVolume' = ClampVolume(tvVolume + 10)
    /\ UNCHANGED <<tvEnabled, tvChannel>>

\* Remote.VolumeDown
VolumeDown ==
    /\ Called([op |-> "VolumeDown"])
    /\ tvVolume' = ClampVolume(tvVolume - 10)
    /\ UNCHANGED <<tvEnabled, tvChannel>>

\* Remote.ChannelUp
ChannelUp ==
    /\ Called([op |-> "ChannelUp"])
    /\ tvChannel' = tvChannel + 1
    /\ UNCHANGED <<tvEnabled, tvVolume>>

\* Remote.ChannelDown
ChannelDown ==
    /\ Called([op |-> "ChannelDown"])
    /\ tvChannel' = tvChannel - 1
    /\ UNCHANGED <<tvEnabled, tvVolume>>

\* AdvancedRemote.Mute
Mute ==
    /\ Called([op |-> "Mute"])
    /\ tvVolume' = ClampVolume(0)
    /\ UNCHANGED <<tvEnabled, tvChannel>>

\* AdvancedRemote.SetChannel(channel)
SetChannel ==
    /\ \E channel \in Channels :
        /\ Called([op |-> "SetChannel", channel |-> channel])
        /\ tvChannel' = channel
    /\ UNCHANGED <<tvEnabled, tvVolume>>

NextBr ==
    \/ TogglePower
    \/ VolumeUp
    \/ VolumeDown
    \/ ChannelUp
    \/ ChannelDown
    \/ Mute
    \/ SetChannel

\* C19: after the demo's calls on the TV (power toggled, volume up twice,
\* channel up, then through the advanced remote power toggled and channel
\* set to 42) the TV is ON with volume 70 and channel 42.
C19_DemoLeavesTvOn ==
    brScript = Len(DemoCalls) =>
        /\ tvEnabled
        /\ tvVolume = 70
        /\ tvChannel = 42

-----------------------------------------------------------------------------
(* Flyweight: the text editor document of main                              *)

\* the nine editor.AddText calls of main, in order
DemoTexts ==
    <<
       [text |->
          << "H", "e", "l", "l", "o", " " >>,
        font |-> "Arial", size |-> 12, color |-> "Black", bold |-> FALSE,
        italic |-> FALSE],
       [text |->
          << "W", "o", "r", "l", "d" >>,
        font |-> "Arial", size |-> 12, color |-> "Black", bold |-> TRUE,
        italic |-> FALSE],
       [text |->
          << "!", " ", "T", "h", "i", "s", " ", "i", "s", " " >>,
        font |-> "Arial", size |-> 12, color |-> "Black", bold |-> FALSE,
        italic |-> FALSE],
       [text |->
          << "i", "t", "a", "l", "i", "c" >>,
        font |-> "Arial", size |-> 12, color |-> "Black", bold |-> FALSE,
        italic |-> TRUE],
       [text |->
          << " ", "t", "e", "x", "t", ".", " " >>,
        font |-> "Arial", size |-> 12, color |-> "Black", bold |-> FALSE,
        italic |-> FALSE],
       [text |->
          << "L", "a", "r", "g", "e", " ", "h", "e", "a", "d", "i", "n",
             "g" >>,
        font |-> "Arial", size |-> 24, color |-> "Blue", bold |-> TRUE,
        italic |-> FALSE],
       [text |->
          << " ", "a", "n", "d", " ", "m", "o", "r", "e", " " >>,
        font |-> "Arial", size |-> 12, color |-> "Black", bold |-> FALSE,
        italic |-> FALSE],
       [text |->
          << "n", "o", "r", "m", "a", "l" >>,
        font |-> "Arial", size |-> 12, color |-> "Black", bold |-> FALSE,
        italic |-> FALSE],
       [text |->
          << " ", "t", "e", "x", "t", "." >>,
        font |-> "Arial", size |-> 12, color |-> "Black", bold |-> FALSE,
        italic |-> FALSE] >>

\* the next editor.AddText call of main
DemoAddText ==
    /\ edPc < Len(DemoTexts)
    /\ LET c == DemoTexts[edPc + 1]
           r == GetStyle(styles, styleHeap, c.font, c.size, c.color, c.bold,
                         c.italic)
       IN /\ styles' = r.map
          /\ styleHeap' = r.heap
          /\ characters' = characters \o StyledChars(c.text, r.result)
    /\ edPc' = edPc + 1
    /\ UNCHANGED edRest

\* editor := NewTextEditor()
InitEd == edPc = 0

NextEd ==
    \/ DemoAddText
    \/ Render
    \/ EditorGetStats

\* C20: the statistics of the finished demo document are 73 characters and
\* 5 unique styles: 3650 bytes without flyweight, 930 with, 2720 saved.
C20_DemoStatistics ==
    (edPc = Len(DemoTexts) /\ flyOut.op = "EditorGetStats") =>
        /\ flyOut.characters = 73
        /\ flyOut.styles = 5
        /\ flyOut.without = 3650
        /\ flyOut.with = 930
        /\ flyOut.saved = 2720

-----------------------------------------------------------------------------
(* Singleton state: Database.Connect and Logger.Log called from several     *)
(* goroutines on the shared instances.  db.connections++ and l.logCount++   *)
(* are a read of the field followed by a write of the value read plus one,  *)
(* with no lock around them.                                                *)

Workers == { 1, 2 }

InitConn ==
    /\ connections = 0
    /\ logCount = 0
    /\ wpc = [w \in Workers |-> "idle"]
    /\ wreg = [w \in Workers |-> 0]
    /\ connectDone = 0
    /\ logDone = 0
    /\ wStarted = 0

\* go db.Connect()
ConnectCall ==
    /\ wStarted < MaxCounterCalls
    /\ \E w \in Workers :
        /\ wpc[w] = "idle"
        /\ wpc' = [wpc EXCEPT ![w] = "connect-load"]
    /\ wStarted' = wStarted + 1
    /\ UNCHANGED <<connections, logCount, wreg, connectDone, logDone, connRest>>

\* db.connections++ : the read
ConnectLoad ==
    /\ \E w \in Workers :
        /\ wpc[w] = "connect-load"
        /\ wreg' = [wreg EXCEPT ![w] = connections]
        /\ wpc' = [wpc EXCEPT ![w] = "connect-store"]
    /\ UNCHANGED <<connections, logCount, connectDone, logDone, wStarted,
                   connRest>>

\* db.connections++ : the write, then the Printf
ConnectStore ==
    /\ \E w \in Workers :
        /\ wpc[w] = "connect-store"
        /\ connections' = wreg[w] + 1
        /\ wpc' = [wpc EXCEPT ![w] = "idle"]
    /\ connectDone' = connectDone + 1
    /\ UNCHANGED <<logCount, wreg, logDone, wStarted, connRest>>

\* go logger.Log(level, message)
LogCall ==
    /\ wStarted < MaxCounterCalls
    /\ \E w \in Workers :
        /\ wpc[w] = "idle"
        /\ wpc' = [wpc EXCEPT ![w] = "log-load"]
    /\ wStarted' = wStarted + 1
    /\ UNCHANGED <<connections, logCount, wreg, connectDone, logDone, connRest>>

\* l.logCount++ : the read
LogLoad ==
    /\ \E w \in Workers :
        /\ wpc[w] = "log-load"
        /\ wreg' = [wreg EXCEPT ![w] = logCount]
        /\ wpc' = [wpc EXCEPT ![w] = "log-store"]
    /\ UNCHANGED <<connections, logCount, connectDone, logDone, wStarted,
                   connRest>>

\* l.logCount++ : the write, then the Printf
LogStore ==
    /\ \E w \in Workers :
        /\ wpc[w] = "log-store"
        /\ logCount' = wreg[w] + 1
        /\ wpc' = [wpc EXCEPT ![w] = "idle"]
    /\ logDone' = logDone + 1
    /\ UNCHANGED <<connections, wreg, connectDone, wStarted, connRest>>

NextConn ==
    \/ ConnectCall
    \/ ConnectLoad
    \/ ConnectStore
    \/ LogCall
    \/ LogLoad
    \/ LogStore

\* C24: once all calls have completed, connections equals the number of
\* Connect calls made and logCount the number of Log calls made.
C24_NoLostUpdate ==
    (\A w \in Workers : wpc[w] = "idle") =>
        /\ connections = connectDone
        /\ logCount = logDone

-----------------------------------------------------------------------------
(* Composite: File / Directory and Developer / Designer / Manager.  The     *)
(* components a client has created are a fixed pool; sizes are bytes and    *)
(* salaries whole dollars.                                                  *)

\* the FileSystemComponents created with NewDirectory and NewFile
FsObjects ==
    << [kind |-> "Directory", name |-> "root", size |-> 0],
       [kind |-> "Directory", name |-> "home", size |-> 0],
       [kind |-> "File", name |-> "config.txt", size |-> 256],
       [kind |-> "File", name |-> "config.txt", size |-> 1024] >>

\* the Employees created with NewManager, NewDeveloper and NewDesigner
OrgObjects ==
    << [kind |-> "Manager", name |-> "John Smith", salary |-> 200],
       [kind |-> "Manager", name |-> "Sarah Johnson", salary |-> 150],
       [kind |-> "Developer", name |-> "Bob Wilson", salary |-> 110],
       [kind |-> "Designer", name |-> "Carol White", salary |-> 85] >>

Directories == { c \in DOMAIN FsObjects : FsObjects[c].kind = "Directory" }

Managers == { e \in DOMAIN OrgObjects : OrgObjects[e].kind = "Manager" }

RECURSIVE GetSizeShallow(_, _), ShallowFrom(_, _, _)
\* subdirectories left out of the total
ShallowFrom(children, kids, i) ==
    IF i > Len(kids) THEN 0
    ELSE (IF FsObjects[kids[i]].kind = "File" THEN FsObjects[kids[i]].size
          ELSE 0) + ShallowFrom(children, kids, i + 1)

GetSizeShallow(children, c) ==
    IF FsObjects[c].kind = "File" THEN FsObjects[c].size
    ELSE ShallowFrom(children, children[c], 1)

RECURSIVE GetSize(_, _), TotalSizeFrom(_, _, _)
\* Directory.GetSize: the loop over d.children from the i-th child on
TotalSizeFrom(children, kids, i) ==
    IF i > Len(kids) THEN 0
    ELSE GetSize(children, kids[i]) + TotalSizeFrom(children, kids, i + 1)

\* File.GetSize and Directory.GetSize
GetSize(children, c) ==
    IF FsObjects[c].kind = "File" THEN FsObjects[c].size
    ELSE TotalSizeFrom(children, children[c], 1)

RECURSIVE GetSalary(_, _), TotalSalaryFrom(_, _, _)
\* Manager.GetSalary: the loop over m.subordinates from the i-th one on
TotalSalaryFrom(subs, team, i) ==
    IF i > Len(team) THEN 0
    ELSE GetSalary(subs, team[i]) + TotalSalaryFrom(subs, team, i + 1)

\* Developer.GetSalary, Designer.GetSalary and Manager.GetSalary
GetSalary(subs, e) ==
    IF OrgObjects[e].kind # "Manager" THEN OrgObjects[e].salary
    ELSE OrgObjects[e].salary + TotalSalaryFrom(subs, subs[e], 1)

\* Directory.Remove / Manager.RemoveSubordinate: the first element with the
\* given name is cut out of the slice
RemoveNamed(objects, kids, name) ==
    LET hits == { i \in 1..Len(kids) : objects[kids[i]].name = name } IN
    IF hits = {} THEN kids
    ELSE LET i == CHOOSE h \in hits : \A g \in hits : h <= g IN
         SubSeq(kids, 1, i - 1) \o SubSeq(kids, i + 1, Len(kids))

\* the components reachable from c in at most n steps
RECURSIVE Below(_, _, _)
Below(links, set, n) ==
    IF n = 0 THEN set
    ELSE Below(links,
               set \cup UNION { { links[c][i] : i \in 1..Len(links[c]) }
                                : c \in set },
               n - 1)

\* adding c below d keeps the structure acyclic
KeepsAcyclic(links, d, c) == d \notin Below(links, {c}, Len(links))

\* root := NewDirectory(...), ceo := NewManager(...): nothing added yet
InitComp ==
    /\ fsChildren = [c \in DOMAIN FsObjects |-> << >>]
    /\ subordinates = [e \in DOMAIN OrgObjects |-> << >>]
    /\ compOut = [op |-> "none"]
    /\ compOps = 0

\* d.Add(component)
DirectoryAdd ==
    /\ compOps < MaxTreeOps
    /\ \E d \in Directories, c \in DOMAIN FsObjects :
        /\ KeepsAcyclic(fsChildren, d, c)
        /\ fsChildren' = [fsChildren EXCEPT ![d] = Append(fsChildren[d], c)]
    /\ compOps' = compOps + 1
    /\ compOut' = [op |-> "none"]
    /\ UNCHANGED <<subordinates, compRest>>

\* d.Remove(component)
DirectoryRemove ==
    /\ compOps < MaxTreeOps
    /\ \E d \in Directories, c \in DOMAIN FsObjects :
        fsChildren' = [fsChildren EXCEPT
                         ![d] = RemoveNamed(FsObjects, fsChildren[d],
                                            FsObjects[c].name)]
    /\ compOps' = compOps + 1
    /\ compOut' = [op |-> "none"]
    /\ UNCHANGED <<subordinates, compRest>>

\* d.GetSize()
DirectoryGetSize ==
    /\ \E d \in Directories :
        compOut' = [op |-> "GetSize", on |-> d,
                    ret |-> GetSize(fsChildren, d)]
    /\ UNCHANGED <<fsChildren, subordinates, compOps, compRest>>

\* m.AddSubordinate(employee)
AddSubordinate ==
    /\ compOps < MaxTreeOps
    /\ \E m \in Managers, e \in DOMAIN OrgObjects :
        /\ KeepsAcyclic(subordinates, m, e)
        /\ subordinates' = [subordinates EXCEPT
                              ![m] = Append(subordinates[m], e)]
    /\ compOps' = compOps + 1
    /\ compOut' = [op |-> "none"]
    /\ UNCHANGED <<fsChildren, compRest>>

\* m.RemoveSubordinate(employee)
RemoveSubordinate ==
    /\ compOps < MaxTreeOps
    /\ \E m \in Managers, e \in DOMAIN OrgObjects :
        subordinates' = [subordinates EXCEPT
                           ![m] = RemoveNamed(OrgObjects, subordinates[m],
                                              OrgObjects[e].name)]
    /\ compOps' = compOps + 1
    /\ compOut' = [op |-> "none"]
    /\ UNCHANGED <<fsChildren, compRest>>

\* m.GetSalary()
ManagerGetSalary ==
    /\ \E m \in Managers :
        compOut' = [op |-> "GetSalary", on |-> m,
                    ret |-> GetSalary(subordinates, m)]
    /\ UNCHANGED <<fsChildren, subordinates, compOps, compRest>>

NextComp ==
    \/ DirectoryAdd
    \/ DirectoryRemove
    \/ DirectoryGetSize
    \/ AddSubordinate
    \/ RemoveSubordinate
    \/ ManagerGetSalary

\* the number of paths that lead from a down to b
RECURSIVE Paths(_, _, _)
Paths(links, a, b) ==
    LET step[i \in 0..Len(links[a])] ==
          IF i = 0 THEN 0
          ELSE step[i - 1] + (IF links[a][i] = b THEN 1 ELSE 0)
                           + Paths(links, links[a][i], b)
    IN step[Len(links[a])]

\* the sum of f over the elements of a finite set
RECURSIVE SumOver(_, _)
SumOver(set, f) ==
    IF set = {} THEN 0
    ELSE LET x == CHOOSE y \in set : TRUE IN
         f[x] + SumOver(set \ {x}, f)

Files == { c \in DOMAIN FsObjects : FsObjects[c].kind = "File" }

\* C21 as stated: GetSize is the sum of the sizes of the File leaves
\* reachable below the directory, each leaf taken once, and GetSalary is
\* the manager's own salary plus the GetSalary of every subordinate.
C21_SumOfReachableLeaves ==
    /\ compOut.op = "GetSize" =>
         compOut.ret =
            SumOver(Files \cap Below(fsChildren, {compOut.on},
                                     Len(fsChildren)),
                    [c \in Files |-> FsObjects[c].size])
    /\ compOut.op = "GetSalary" =>
         compOut.ret =
            OrgObjects[compOut.on].salary
            + TotalSalaryFrom(subordinates, subordinates[compOut.on], 1)

\* C21: GetSize is the sum of the sizes of the File leaves below the
\* directory, each taken once for every path that leads to it (0 for an
\* empty directory), and GetSalary is the manager's own salary plus the
\* GetSalary of every entry of the subordinates list.
C21_SumOverPaths ==
    /\ compOut.op = "GetSize" =>
         compOut.ret =
            SumOver(Files,
                    [c \in Files |->
                       FsObjects[c].size * Paths(fsChildren, compOut.on, c)])
    /\ compOut.op = "GetSalary" =>
         compOut.ret =
            OrgObjects[compOut.on].salary
            + SumOver(DOMAIN OrgObjects,
                      [e \in DOMAIN OrgObjects |->
                         OrgObjects[e].salary
                            * Paths(subordinates, compOut.on, e)])

\* C21 witness: a directory holding a subdirectory with one file and a file
\* of its own reports the two sizes together.
C21_Witness ==
    /\ compOut.op = "GetSize"
    /\ compOut.on = 1
    /\ fsChildren[1] = <<2, 3>>
    /\ fsChildren[2] = <<4>>
    /\ compOut.ret = 1280

-----------------------------------------------------------------------------
(* Builder: Computer, ComputerBuilder and Director.  A builder holds a      *)
(* pointer to the Computer it is filling in.                                *)

\* &Computer{}
ZeroComputer ==
    [CPU |-> "", RAM |-> 0, Storage |-> "", GPU |-> "", Motherboard |-> "",
     PowerSupply |-> "", CoolingType |-> "", CaseType |-> "",
     WiFi |-> FALSE, Bluetooth |-> FALSE, RGBLighting |-> FALSE]

\* the setter calls of Director.BuildGamingPC, BuildOfficePC and
\* BuildWorkstationPC
Recipes ==
    [Gaming |->
       [CPU |-> "Intel Core i9-13900K", RAM |-> 32,
        Storage |-> "2TB NVMe SSD", GPU |-> "NVIDIA RTX 4090",
        Motherboard |-> "ASUS ROG Maximus Z790",
        PowerSupply |-> "1000W 80+ Gold",
        CoolingType |-> "Liquid Cooling 360mm",
        CaseType |-> "Full Tower RGB",
        Adds |-> {"WiFi", "Bluetooth", "RGBLighting"}],
     Office |->
       [CPU |-> "Intel Core i5-13400", RAM |-> 16,
        Storage |-> "512GB SSD", GPU |-> "Integrated Graphics",
        Motherboard |-> "ASUS Prime B660",
        PowerSupply |-> "450W 80+ Bronze", CoolingType |-> "Air Cooling",
        CaseType |-> "Mid Tower", Adds |-> {"WiFi"}],
     Workstation |->
       [CPU |-> "AMD Ryzen 9 7950X", RAM |-> 64,
        Storage |-> "4TB NVMe SSD + 8TB HDD", GPU |-> "NVIDIA RTX 4080",
        Motherboard |-> "ASUS Pro WS X670E",
        PowerSupply |-> "850W 80+ Platinum",
        CoolingType |-> "Liquid Cooling 280mm", CaseType |-> "Mid Tower",
        Adds |-> {"WiFi", "Bluetooth"}]]

\* a Director method run on a builder whose computer is c: eight setters,
\* then the Add* calls of the recipe
DirectorBuild(c, recipe) ==
    LET r == Recipes[recipe] IN
    [CPU |-> r.CPU, RAM |-> r.RAM, Storage |-> r.Storage, GPU |-> r.GPU,
     Motherboard |-> r.Motherboard, PowerSupply |-> r.PowerSupply,
     CoolingType |-> r.CoolingType, CaseType |-> r.CaseType,
     WiFi |-> IF "WiFi" \in r.Adds THEN TRUE ELSE c.WiFi,
     Bluetooth |-> IF "Bluetooth" \in r.Adds THEN TRUE ELSE c.Bluetooth,
     RGBLighting |-> IF "RGBLighting" \in r.Adds THEN TRUE
                     ELSE c.RGBLighting]

\* the program before any builder is created
InitBld ==
    /\ bComputers = << >>
    /\ bBuilders = << >>
    /\ bReturned = {}
    /\ bCalls = 0

\* NewComputerBuilder()
NewComputerBuilder ==
    /\ Len(bBuilders) < MaxBuilders
    /\ bComputers' = Append(bComputers, ZeroComputer)
    /\ bBuilders' = Append(bBuilders, Len(bComputers) + 1)
    /\ UNCHANGED <<bReturned, bCalls, bldRest>>

\* one setter call on some builder: b.computer.<field> = value
Setter(field, value) ==
    /\ bCalls < MaxBuilderCalls
    /\ \E b \in 1..Len(bBuilders) :
        bComputers' = [bComputers EXCEPT ![bBuilders[b]][field] = value]
    /\ bCalls' = bCalls + 1
    /\ UNCHANGED <<bBuilders, bReturned, bldRest>>

\* builder.SetCPU(cpu)
SetCPU == Setter("CPU", "AMD Ryzen 7 7800X3D")

\* builder.SetRAM(ram)
SetRAM == Setter("RAM", 8)

\* builder.SetStorage(storage)
SetStorage == Setter("Storage", "1TB NVMe SSD")

\* builder.SetGPU(gpu)
SetGPU == Setter("GPU", "AMD Radeon RX 7900 XTX")

\* builder.SetMotherboard(motherboard)
SetMotherboard == Setter("Motherboard", "MSI MAG X670E")

\* builder.SetPowerSupply(powerSupply)
SetPowerSupply == Setter("PowerSupply", "750W 80+ Gold")

\* builder.SetCoolingType(coolingType)
SetCoolingType == Setter("CoolingType", "Air Cooling - Noctua NH-D15")

\* builder.SetCaseType(caseType)
SetCaseType == Setter("CaseType", "Mid Tower")

\* builder.AddWiFi()
AddWiFi == Setter("WiFi", TRUE)

\* builder.AddBluetooth()
AddBluetooth == Setter("Bluetooth", TRUE)

\* builder.AddRGBLighting()
AddRGBLighting == Setter("RGBLighting", TRUE)

\* computer := builder.Build()
Build ==
    /\ bCalls < MaxBuilderCalls
    /\ \E b \in 1..Len(bBuilders) :
        bReturned' = bReturned \cup
            { [ptr |-> bBuilders[b], value |-> bComputers[bBuilders[b]],
               recipe |-> "none"] }
    /\ bCalls' = bCalls + 1
    /\ UNCHANGED <<bComputers, bBuilders, bldRest>>

\* computer := director.BuildGamingPC(builder), BuildOfficePC(builder) or
\* BuildWorkstationPC(builder)
DirectorBuildPC ==
    /\ bCalls < MaxBuilderCalls
    /\ \E b \in 1..Len(bBuilders), recipe \in DOMAIN Recipes :
        LET c == DirectorBuild(bComputers[bBuilders[b]], recipe) IN
        /\ bComputers' = [bComputers EXCEPT ![bBuilders[b]] = c]
        /\ bReturned' = bReturned \cup
              { [ptr |-> bBuilders[b], value |-> c, recipe |-> recipe] }
    /\ bCalls' = bCalls + 1
    /\ UNCHANGED <<bBuilders, bldRest>>

NextBld ==
    \/ NewComputerBuilder
    \/ SetCPU
    \/ SetRAM
    \/ SetStorage
    \/ SetGPU
    \/ SetMotherboard
    \/ SetPowerSupply
    \/ SetCoolingType
    \/ SetCaseType
    \/ AddWiFi
    \/ AddBluetooth
    \/ AddRGBLighting
    \/ Build
    \/ DirectorBuildPC

\* C26: a Computer that was returned keeps the field values it was returned
\* with, whatever is done with the builder afterwards, and the result of a
\* Director recipe is the recipe applied to an empty Computer.
C26_ReturnedComputerIsIsolated ==
    \A r \in bReturned :
        /\ bComputers[r.ptr] = r.value
        /\ r.recipe # "none" =>
             r.value = DirectorBuild(ZeroComputer, r.recipe)

-----------------------------------------------------------------------------
(* Specifications: every demo starts from its freshly constructed objects *)

Init == InitFly /\ InitRace /\ InitAdapter /\ InitDB /\ InitOnce
        /\ InitProto
        /\ InitBank
        /\ InitLb
        /\ InitYt
        /\ InitImg
        /\ InitDs
        /\ InitBr
        /\ InitEd
        /\ InitConn
        /\ InitComp
        /\ InitBld

SpecFly == Init /\ [][NextFly]_vars

SpecRace == Init /\ [][NextRace]_vars

SpecAdapter == Init /\ [][NextAdapter]_vars

SpecDB == Init /\ [][NextDB]_vars

SpecOnce == Init /\ [][NextOnce]_vars

SpecProto == Init /\ [][NextProto]_vars

SpecBank == Init /\ [][NextBank]_vars

SpecLb == Init /\ [][NextLb]_vars

SpecYt == Init /\ [][NextYt]_vars

SpecImg == Init /\ [][NextImg]_vars

SpecDs == Init /\ [][NextDs]_vars

SpecBr == Init /\ [][NextBr]_vars

SpecEd == Init /\ [][NextEd]_vars

SpecConn == Init /\ [][NextConn]_vars

SpecComp == Init /\ [][NextComp]_vars

SpecBld == Init /\ [][NextBld]_vars

=============================================================================
